---- MODULE Spec2Model ----
(***************************************************************************)
(* A model of burrow, a resilience layer over an AMQP client:              *)
(*   - the ConnectionManager (createConnection): connection state machine, *)
(*     connect-with-retry loop with exponential backoff, close();          *)
(*   - the Consumer (createConsumer): setup, start/stop, reconnect         *)
(*     handler, per-message handling;                                      *)
(*   - the Publisher (createPublisher): setup, channel close handler;      *)
(*   - the Bridge (createBridge): start/stop and per-message forwarding.   *)
(* Every action is one synchronous segment of the code, from one await (or *)
(* an event delivered by the broker client) to the next.                   *)
(***************************************************************************)
EXTENDS Integers, Sequences, FiniteSets, TLC

NULL == 0

Min(a, b) == IF a <= b THEN a ELSE b

\* handles are opaque: a new one is the lowest number not in use
Lowest(S) == CHOOSE x \in S : \A y \in S : x <= y

(***************************************************************************)
(* Bounds of the model.                                                    *)
(***************************************************************************)
\* physical connections one manager opens in a run
MaxConnects == 3
\* attempts of one connect-with-retry loop when the retry cap is -1
MaxAttempts == 3
\* slots for concurrently running connect-with-retry invocations
NLoops == 2

(***************************************************************************)
(* Program constants (DEFAULT_RECONNECT).                                  *)
(***************************************************************************)
InitialDelayMs == 1000
MaxDelayMs == 30000
Multiplier == 2
\* the values of reconnect.maxRetries the model draws from: -1 is unbounded
Unbounded == -1
RetryCaps == {Unbounded, 2, 3}

\* DEFAULT_RECONNECT, and the reconnect options the model draws from
DEFAULT_RECONNECT ==
    [initialDelayMs |-> InitialDelayMs, maxDelayMs |-> MaxDelayMs, multiplier |-> Multiplier]

InitialDelays == {InitialDelayMs, 20000, 40000}

Multipliers == {1, Multiplier}

ReconnectConfigs ==
    [initialDelayMs : InitialDelays, maxDelayMs : {MaxDelayMs}, multiplier : Multipliers]

VARIABLES
    \* ---- ConnectionManager (createConnection) ----
    connection,       \* state.connection: NULL or the handle of a physical connection
    state,            \* state.state
    isShuttingDown,   \* state.isShuttingDown
    maxRetries,       \* reconnectConfig.maxRetries
    reconnectConfig,  \* reconnectConfig: initialDelayMs, maxDelayMs, multiplier
    loop,             \* the invocations of connectWithRetry: pc, attempt, delay
    nconn,            \* physical connections opened so far (the next handle is nconn + 1)
    alive,            \* physical connections that have not closed
    listening,        \* physical connections carrying the manager's close listener
    closePc,          \* close(): "idle", or "closing" while awaiting connection.close()
    closeH,           \* the handle close() is closing
    apiReady,         \* createConnection has returned the manager to its caller
    mState,           \* metrics.connectionState
    mEstablished,     \* metrics.connectionsEstablished
    mLost,            \* metrics.connectionsLost
    mAttempt,         \* metrics.reconnectAttempt
    lateAttempt,      \* history: a connect attempt was started after close() set the flag
    chReq,            \* the createChannel / createConfirmChannel call awaiting the connection
    chRet,            \* history, per kind of channel: what the latest call returned
    reconnectSubscribers,  \* state.reconnectSubscribers, in insertion order
    handles,          \* the unsubscribe handles onReconnect has returned: their callback
    regOrder,         \* history: the callbacks registered and not unsubscribed, in order
    lastFanout,       \* history: the subscriber fan-out of the latest successful connection
    initialInvoked,   \* history: callbacks invoked for the initial connection
    \* ---- Consumer (createConsumer) on one manager ----
    cUp,              \* the manager of the consumer is connected
    cOpen,            \* channels of the consumer's connection that are open at the broker
    cHandlers,        \* per channel: how many consumer "close" listeners it carries
    cChannel,         \* state.channel
    consumerTag,      \* state.consumerTag
    isActive,         \* state.isActive
    wasActive,        \* state.wasActive
    cRegs,            \* live consume registrations at the broker: [ch, tag]
    cPc,              \* the running handleReconnect / start() / stop(): pc and channel awaited on
    wantActive,       \* history: start() has returned and stop() was not called since
    stopDone,         \* history: stop() has returned and start() was not called since
    sigAfterStop,     \* history: a reconnect signal arrived while stopDone
    startOnActive,    \* history: isActive when the latest start() was called
    \* ---- the consumer's queue at the broker and handleMessage ----
    mq,               \* per message: where it is at the broker, and its redelivered flag
    deliveries,               \* the deliveries made to handleMessage so far, in order
    cDelivered,       \* per open channel: deliveries made on it (the last delivery tag)
    messagesConsumed,       \* state.messagesConsumed
    messagesConsumeFailed,  \* state.messagesConsumeFailed
    cRequeues,        \* history, per message: nacks with requeue the broker applied to it
    \* ---- Publisher (createPublisher) on one manager ----
    pUp,              \* the manager of the publisher is connected
    pChanOpen,        \* the confirm channel made by setup() is open at the broker
    pChannel,         \* state.channel: NULL or the channel made by setup()
    pIsReady,         \* state.isReady
    messagesPublished,      \* state.messagesPublished
    messagesPublishFailed,  \* state.messagesPublishFailed
    pPending,         \* publishes sent to the broker and not yet confirmed
    pClosePc,         \* close(): "idle", "closing" (awaiting channel.close()), "done"
    pCalls,           \* history: calls of publish() so far
    pSent,            \* history: broker-level publish calls so far
    pHist,            \* history, per call of publish(): how its promise stands
    \* ---- Bridge (createBridge) between a source and a target manager ----
    bSrcUp,           \* options.source.isConnected()
    bTgtUp,           \* options.target.isConnected()
    bSrcOpen,         \* channels of the source connection open at the broker
    bTgtOpen,         \* channels of the target connection open at the broker
    consumerChannel,  \* state.consumerChannel
    producerChannel,  \* state.producerChannel
    isRunning,        \* state.isRunning
    consumerTags,     \* state.consumerTags
    bRegs,            \* live consume registrations at the source broker: [ch, tag, ex]
    bPc,              \* the running start() / stop(): pc and exchange index
    messagesForwarded,  \* state.metrics.messagesForwarded
    messagesFailed,     \* state.metrics.messagesFailed
    errorLogCount,    \* state.errorLogCount
    lastErrorLogReset,  \* state.lastErrorLogReset
    limHist,          \* history of the calls of shouldLogError()
    bNow,             \* Date.now()
    bq,               \* per message of the source queue: where it is, redelivered flag
    bDeliveries,      \* the deliveries made to the bridge's handleMessage, in order
    bDelivered,       \* per open source channel: deliveries made on it
    bStarted,         \* history: start() has returned true and stop() was not called since
    bRecovered,       \* history: a manager has reconnected while bStarted
    bLast,            \* history: the latest start() / stop() call and how it ended
    logEveryNMessages,  \* opts.logEveryNMessages
    progressLogs,     \* history: progress lines logForwarded has written
    \* ---- MetricsCollector (createMetricsCollector) ----
    metrics,          \* the state object of the collector
    recorded,         \* history: the calls made since creation or the last reset()
    \* ---- the subscriber loop of connectWithRetry, taken one call at a time ----
    fan               \* the entries of the Set under iteration, the position, the calls made

connVars == <<connection, state, isShuttingDown, maxRetries, reconnectConfig, loop, nconn, alive,
              listening, closePc, closeH, apiReady, mState, mEstablished, mLost,
              mAttempt, lateAttempt, chReq, chRet, reconnectSubscribers, handles,
              regOrder, lastFanout, initialInvoked>>

chanVars == <<chReq, chRet>>

subVars == <<reconnectSubscribers, handles, regOrder, lastFanout, initialInvoked>>

msgVars == <<mq, deliveries, cDelivered, messagesConsumed, messagesConsumeFailed, cRequeues>>

consVars == <<cUp, cOpen, cHandlers, cChannel, consumerTag, isActive, wasActive,
              cRegs, cPc, wantActive, stopDone, sigAfterStop, startOnActive, msgVars>>

pubVars == <<pUp, pChanOpen, pChannel, pIsReady, messagesPublished,
             messagesPublishFailed, pPending, pClosePc, pCalls, pSent, pHist>>

brVars == <<bSrcUp, bTgtUp, bSrcOpen, bTgtOpen, consumerChannel, producerChannel,
            isRunning, consumerTags, bRegs, bPc, messagesForwarded, messagesFailed,
            errorLogCount, lastErrorLogReset, limHist, bNow, bq, bDeliveries, bDelivered,
            bStarted, bRecovered, bLast, logEveryNMessages, progressLogs>>

\* what the actions of one component leave alone: the other components
mcVars == <<metrics, recorded>>

fanVars == <<fan>>

notConn == <<consVars, pubVars, brVars, mcVars, fanVars>>
\* what one call of the subscriber loop leaves alone
notFan == <<consVars, pubVars, brVars, mcVars>>
notCons == <<connVars, pubVars, brVars, mcVars, fanVars>>
notPub == <<connVars, consVars, brVars, mcVars, fanVars>>
notBr == <<connVars, consVars, pubVars, mcVars, fanVars>>
notMc == <<connVars, consVars, pubVars, brVars, fanVars>>

Loops == 1..NLoops

NoLoop == [pc |-> "none", attempt |-> 0, delay |-> 0, prev |-> 0, h |-> NULL,
           by |-> "none", err |-> "none"]

\* connectWithRetry, line 150: the delay a fresh invocation starts with
freshDelayAtMax == reconnectConfig.maxDelayMs

freshDelay == reconnectConfig.initialDelayMs

\* a loop invocation that is still running (at an await)
Running(l) == l.pc \in {"start", "connecting", "cleanup", "sleeping"}

FreeSlots == {i \in Loops : ~Running(loop[i])}

\* callbacks a caller can pass to onReconnect, and calls of onReconnect in a run
NCallbacks == 2
MaxRegs == 3
Callbacks == 1..NCallbacks

Range(s) == {s[i] : i \in DOMAIN s}

Without(s, x) == SelectSeq(s, LAMBDA y : y # x)

\* a fan-out over no subscriber
NoFanout == [due |-> <<>>, invoked |-> <<>>, threw |-> {}, state |-> "disconnected",
             pc |-> "start"]

\* reconnectSubscribers.add(callback): a Set keeps insertion order and holds
\* a value once
addSubscriber(subs, cb) == IF cb \in Range(subs) THEN subs ELSE Append(subs, cb)

\* reconnectSubscribers.delete(callback)
deleteSubscriberNoop(subs, cb) == subs

deleteSubscriber(subs, cb) == Without(subs, cb)

\* The fan-out loop over the subscribers, those in threw throwing: the
\* callbacks it invokes, in order.  Each call sits in its own try / catch.
NotifiedUntilThrow(subs, threw) ==
    LET throwers == {i \in DOMAIN subs : subs[i] \in threw} IN
    IF throwers = {} THEN subs ELSE SubSeq(subs, 1, Lowest(throwers))

Notified(subs, threw) == subs

\* createChannel() makes a "plain" channel, createConfirmChannel() a "confirm" one
ChanKinds == {"plain", "confirm"}

NoReq == [pc |-> "idle", kind |-> "plain", h |-> NULL, atCall |-> FALSE]

NoRet == [res |-> "none", atCall |-> FALSE, atReturn |-> FALSE]

\* calls the subscriber loop of one connect makes in the model
MaxInvocations == 4

\* The Set under iteration: its entries in insertion order, a deleted entry
\* left empty (NULL) in place, the index of the entry the loop looks at
\* next, the calls made per callback, and, once the loop has ended, the
\* callbacks registered at its end.
NoFan == [entries |-> <<>>, index |-> 1, invoked |-> [cb \in Callbacks |-> 0],
          running |-> FALSE, ended |-> FALSE, registered |-> {}]

\* the entries of the Set that hold a value, in order
Live(entries) == SelectSeq(entries, LAMBDA e : e # NULL)

\* Set.prototype.delete during an iteration: the entry is emptied in place
setDelete(entries, cb) ==
    [k \in DOMAIN entries |-> IF entries[k] = cb THEN NULL ELSE entries[k]]

\* Set.prototype.add during an iteration: a value not in the Set is put at
\* the end, where the running iteration will reach it
setAdd(entries, cb) == IF cb \in Range(entries) THEN entries ELSE Append(entries, cb)

\* the index of the next entry with a value at or after index k, or 0
NextLive(entries, k) ==
    LET S == {j \in DOMAIN entries : j >= k /\ entries[j] # NULL} IN
    IF S = {} THEN 0 ELSE Lowest(S)

ConnInit ==
    /\ connection = NULL
    /\ state = "disconnected"
    /\ isShuttingDown = FALSE
    /\ maxRetries \in RetryCaps
    /\ reconnectConfig \in ReconnectConfigs
    /\ loop = [i \in Loops |-> IF i = 1
                               THEN [pc |-> "start", attempt |-> 0,
                                     delay |-> freshDelay, prev |-> 0, h |-> NULL,
                                     by |-> "createConnection", err |-> "none"]
                               ELSE NoLoop]
    /\ nconn = 0
    /\ alive = {}
    /\ listening = {}
    /\ closePc = "idle"
    /\ closeH = NULL
    /\ apiReady = FALSE
    /\ mState = "disconnected"
    /\ mEstablished = 0
    /\ mLost = 0
    /\ mAttempt = 0
    /\ lateAttempt = FALSE
    /\ chReq = NoReq
    /\ chRet = [k \in ChanKinds |-> NoRet]
    /\ reconnectSubscribers = <<>>
    /\ fan = NoFan
    /\ handles = <<>>
    /\ regOrder = <<>>
    /\ lastFanout = NoFanout
    /\ initialInvoked = {}

\* isConnected()
isConnected == state = "connected" /\ connection # NULL

\* getState()
getState == state

(***************************************************************************)
(* connectWithRetry, one segment per await.                                *)
(***************************************************************************)

\* the catch block without its removeAllListeners call
removeAllListenersSkipped(ls, h) == ls

\* The catch block, before it closes a connection of its own: the
\* connection loses the manager's listeners, so its closure is not reported.
removeAllListeners(ls, h) == ls \ {h}

\* An invocation of connectWithRetry without a catch handler on its promise:
\* the throw reaches whoever runs the invocation.
rejectedUnhandled(l) == [l EXCEPT !.err = "raised"]

\* An invocation ends in a throw. The promise of the invocation made by
\* scheduleReconnect has a catch handler that logs the error; the initial
\* invocation is awaited by createConnection, which rejects with it.
rejected(l) ==
    [l EXCEPT !.err = IF l.by = "scheduleReconnect" THEN "logged" ELSE "raised"]

\* The head of one loop iteration, entered with the flag clear: attempt++,
\* state := connecting, the onReconnecting observer (outside the try, so a
\* throw ends the invocation), then amqp.connect is awaited.
IterStart(i, caller, att, dl, pv, throws) ==
    /\ loop' = [loop EXCEPT ![i] =
                  LET l == [pc |-> "connecting", attempt |-> att + 1, delay |-> dl,
                            prev |-> pv, h |-> NULL, by |-> caller, err |-> "none"] IN
                  IF throws THEN rejected([l EXCEPT !.pc = "threw"]) ELSE l]
    /\ state' = "connecting"
    /\ mState' = "connecting"
    /\ mAttempt' = att + 1
    /\ lateAttempt' = (lateAttempt \/ isShuttingDown')

\* The tail of the catch block: the retry cap, else the backoff sleep.
RetryOrThrowLate(l) ==
    IF maxRetries # Unbounded /\ l.attempt > maxRetries
    THEN rejected([l EXCEPT !.pc = "failed", !.h = NULL])
    ELSE [l EXCEPT !.pc = "sleeping", !.h = NULL]

RetryOrThrow(l) ==
    IF maxRetries # Unbounded /\ l.attempt >= maxRetries
    THEN rejected([l EXCEPT !.pc = "failed", !.h = NULL])
    ELSE [l EXCEPT !.pc = "sleeping", !.h = NULL]

\* the initial invocation, made by createConnection
LoopStart(i) ==
    /\ loop[i].pc = "start"
    /\ IF isShuttingDown
       THEN /\ loop' = [loop EXCEPT ![i].pc = "done"]
            /\ UNCHANGED <<state, mState, mAttempt, lateAttempt>>
       ELSE /\ UNCHANGED isShuttingDown
            /\ \E throws \in BOOLEAN : IterStart(i, loop[i].by, loop[i].attempt, loop[i].delay, 0, throws)
    /\ UNCHANGED <<connection, isShuttingDown, maxRetries, reconnectConfig, nconn, alive, listening,
                   closePc, closeH, apiReady, mEstablished, mLost>>
    /\ UNCHANGED chanVars
    /\ UNCHANGED subVars
    /\ UNCHANGED notConn

\* amqp.connect resolves: listeners, state := connected, recordConnect,
\* onConnect (a throw lands in the catch block), the subscribers, return.
ConnectSucceeds(i) ==
    /\ loop[i].pc = "connecting"
    /\ nconn < MaxConnects
    /\ LET h == nconn + 1 IN
       /\ nconn' = h
       /\ connection' = h
       /\ alive' = alive \cup {h}
       /\ state' = "connected"
       /\ mState' = "connected"
       /\ mEstablished' = mEstablished + 1
       /\ mAttempt' = 0
       /\ \E onConnectThrows \in BOOLEAN :
            IF onConnectThrows
            THEN \* catch: removeAllListeners, then await connection.close()
                 /\ listening' = removeAllListeners(listening \cup {h}, h)
                 /\ loop' = [loop EXCEPT ![i].pc = "cleanup", ![i].h = h]
                 /\ UNCHANGED <<apiReady, lastFanout, initialInvoked>>
            ELSE /\ listening' = listening \cup {h}
                 /\ loop' = [loop EXCEPT ![i].pc = "done"]
                 /\ \E threw \in SUBSET Range(reconnectSubscribers) :
                      /\ lastFanout' = [due |-> regOrder,
                                        invoked |-> Notified(reconnectSubscribers, threw),
                                        threw |-> threw, state |-> state',
                                        pc |-> loop'[i].pc]
                      /\ initialInvoked' =
                            IF apiReady THEN initialInvoked
                            ELSE Range(Notified(reconnectSubscribers, threw))
                 /\ apiReady' = (apiReady \/ i = 1)
    /\ UNCHANGED <<isShuttingDown, maxRetries, reconnectConfig, closePc, closeH, mLost, lateAttempt>>
    /\ UNCHANGED chanVars
    /\ UNCHANGED <<reconnectSubscribers, handles, regOrder>>
    /\ UNCHANGED notConn

\* amqp.connect resolves, as in ConnectSucceeds, with the loop over the
\* subscribers taken one call at a time: up to the first call
FanConnect(i) ==
    /\ loop[i].pc = "connecting"
    /\ nconn < MaxConnects
    /\ ~fan.running
    /\ LET h == nconn + 1 IN
       /\ nconn' = h
       /\ connection' = h
       /\ alive' = alive \cup {h}
       /\ listening' = listening \cup {h}
    /\ state' = "connected"
    /\ mState' = "connected"
    /\ mEstablished' = mEstablished + 1
    /\ mAttempt' = 0
    /\ loop' = [loop EXCEPT ![i].pc = "fanout"]
    /\ fan' = [NoFan EXCEPT !.entries = reconnectSubscribers, !.running = TRUE]
    /\ UNCHANGED <<isShuttingDown, maxRetries, reconnectConfig, closePc, closeH, mLost,
                   lateAttempt, apiReady>>
    /\ UNCHANGED chanVars
    /\ UNCHANGED subVars
    /\ UNCHANGED notFan

\* One call of the loop: the subscriber at the next entry with a value is
\* called and, before it returns, changes the Set to "after" and the
\* unsubscribe closures handed out to "closures".
FanInvoke(after, closures) ==
    LET k == NextLive(fan.entries, fan.index)
        cb == fan.entries[k] IN
    /\ fan' = [fan EXCEPT !.entries = after, !.index = k + 1,
                          !.invoked[cb] = @ + 1]
    /\ reconnectSubscribers' = Live(after)
    /\ regOrder' = Live(after)
    /\ handles' = closures
    /\ UNCHANGED <<connection, state, isShuttingDown, maxRetries, reconnectConfig, loop,
                   nconn, alive, listening, closePc, closeH, apiReady, mState,
                   mEstablished, mLost, mAttempt, lateAttempt, lastFanout,
                   initialInvoked>>
    /\ UNCHANGED chanVars
    /\ UNCHANGED notFan

\* the loop has a subscriber left to call
FanPending ==
    /\ fan.running
    /\ NextLive(fan.entries, fan.index) # 0
    /\ fan.invoked[fan.entries[NextLive(fan.entries, fan.index)]] < MaxInvocations

\* the subscriber called leaves the Set alone
FanInvokePlain ==
    /\ FanPending
    /\ FanInvoke(fan.entries, handles)

\* the subscriber called calls the unsubscribe closure n
FanInvokeUnsubscribes(n) ==
    /\ FanPending
    /\ n \in DOMAIN handles
    /\ FanInvoke(setDelete(fan.entries, handles[n]), handles)

\* the subscriber called subscribes the callback cb
FanInvokeSubscribes(cb) ==
    /\ FanPending
    /\ Len(handles) < MaxRegs
    /\ FanInvoke(setAdd(fan.entries, cb), Append(handles, cb))

\* the subscriber called unsubscribes itself and subscribes itself again
FanInvokeResubscribes ==
    /\ FanPending
    /\ Len(handles) < MaxRegs
    /\ LET cb == fan.entries[NextLive(fan.entries, fan.index)] IN
       FanInvoke(setAdd(setDelete(fan.entries, cb), cb), Append(handles, cb))

\* the loop finds no entry left: connectWithRetry returns
FanEnd(i) ==
    /\ loop[i].pc = "fanout"
    /\ fan.running
    /\ NextLive(fan.entries, fan.index) = 0
    /\ fan' = [fan EXCEPT !.running = FALSE, !.ended = TRUE,
                          !.registered = Range(Live(fan.entries))]
    /\ loop' = [loop EXCEPT ![i].pc = "done"]
    /\ apiReady' = (apiReady \/ i = 1)
    /\ UNCHANGED <<connection, state, isShuttingDown, maxRetries, reconnectConfig,
                   nconn, alive, listening, closePc, closeH, mState,
                   mEstablished, mLost, mAttempt, lateAttempt>>
    /\ UNCHANGED chanVars
    /\ UNCHANGED subVars
    /\ UNCHANGED notFan

\* amqp.connect rejects: the catch block up to its first await
ConnectFails(i) ==
    /\ loop[i].pc = "connecting"
    /\ loop[i].attempt < MaxAttempts \/ maxRetries # Unbounded
    /\ IF connection # NULL
       THEN /\ listening' = removeAllListeners(listening, connection)
            /\ loop' = [loop EXCEPT ![i].pc = "cleanup", ![i].h = connection]
       ELSE /\ loop' = [loop EXCEPT ![i] = RetryOrThrow(loop[i])]
            /\ UNCHANGED listening
    /\ UNCHANGED <<connection, state, isShuttingDown, maxRetries, reconnectConfig, nconn, alive,
                   closePc, closeH, apiReady, mState, mEstablished, mLost, mAttempt,
                   lateAttempt>>
    /\ UNCHANGED chanVars
    /\ UNCHANGED subVars
    /\ UNCHANGED notConn

\* the cleanup close settles (its failure is ignored): connection := null
CleanupDone(i) ==
    /\ loop[i].pc = "cleanup"
    /\ alive' = alive \ {loop[i].h}
    /\ connection' = NULL
    /\ loop' = [loop EXCEPT ![i] = RetryOrThrow(loop[i])]
    /\ UNCHANGED <<state, isShuttingDown, maxRetries, reconnectConfig, nconn, listening, closePc,
                   closeH, apiReady, mState, mEstablished, mLost, mAttempt, lateAttempt>>
    /\ UNCHANGED chanVars
    /\ UNCHANGED subVars
    /\ UNCHANGED notConn

\* the backoff sleep ends: the next delay, then the loop condition
SleepDone(i) ==
    /\ loop[i].pc = "sleeping"
    /\ LET dl == Min(loop[i].delay * reconnectConfig.multiplier,
                     reconnectConfig.maxDelayMs) IN
       IF isShuttingDown
       THEN /\ loop' = [loop EXCEPT ![i].pc = "done", ![i].delay = dl]
            /\ UNCHANGED <<state, mState, mAttempt, lateAttempt>>
       ELSE /\ UNCHANGED isShuttingDown
            /\ \E throws \in BOOLEAN :
                 IterStart(i, loop[i].by, loop[i].attempt, dl, loop[i].delay, throws)
    /\ UNCHANGED <<connection, isShuttingDown, maxRetries, reconnectConfig, nconn, alive, listening,
                   closePc, closeH, apiReady, mEstablished, mLost>>
    /\ UNCHANGED chanVars
    /\ UNCHANGED subVars
    /\ UNCHANGED notConn

\* scheduleReconnect, with the synchronous head of the connectWithRetry it calls
scheduleReconnect ==
    IF isShuttingDown \/ state = "reconnecting"
    THEN UNCHANGED <<connection, state, loop, mState, mAttempt, lateAttempt>>
    ELSE /\ connection' = NULL
         /\ UNCHANGED isShuttingDown
         /\ \E i \in FreeSlots : \E throws \in BOOLEAN :
              IterStart(i, "scheduleReconnect", 0, freshDelay, 0, throws)

\* The "close" listener of an established connection h: recordDisconnect,
\* onDisconnect, and scheduleReconnect unless shutting down.
ConnClosed(h) ==
    /\ h \in alive
    /\ h \in listening
    /\ alive' = alive \ {h}
    /\ mLost' = mLost + 1
    /\ \E onDisconnectThrows \in BOOLEAN :
         IF onDisconnectThrows \/ isShuttingDown
         THEN /\ mState' = "disconnected"
              /\ UNCHANGED <<connection, state, loop, mAttempt, lateAttempt>>
         ELSE scheduleReconnect
    /\ UNCHANGED <<isShuttingDown, maxRetries, reconnectConfig, nconn, listening, closePc, closeH,
                   apiReady, mEstablished>>
    /\ UNCHANGED chanVars
    /\ UNCHANGED subVars
    /\ UNCHANGED notConn

\* close(), up to its await
Close ==
    /\ apiReady
    /\ closePc = "idle"
    /\ isShuttingDown' = TRUE
    /\ IF connection # NULL
       THEN /\ closePc' = "closing"
            /\ closeH' = connection
            /\ UNCHANGED <<connection, state, mState>>
       ELSE /\ connection' = NULL
            /\ state' = "disconnected"
            /\ mState' = "disconnected"
            /\ UNCHANGED <<closePc, closeH>>
    /\ UNCHANGED <<maxRetries, reconnectConfig, loop, nconn, alive, listening, apiReady, mEstablished,
                   mLost, mAttempt, lateAttempt>>
    /\ UNCHANGED chanVars
    /\ UNCHANGED subVars
    /\ UNCHANGED notConn

\* close() after connection.close() has settled (the connection has closed)
CloseDone ==
    /\ closePc = "closing"
    /\ closeH \notin alive
    /\ closePc' = "idle"
    /\ closeH' = NULL
    /\ connection' = NULL
    /\ state' = "disconnected"
    /\ mState' = "disconnected"
    /\ UNCHANGED <<isShuttingDown, maxRetries, reconnectConfig, loop, nconn, alive, listening, apiReady,
                   mEstablished, mLost, mAttempt, lateAttempt>>
    /\ UNCHANGED chanVars
    /\ UNCHANGED subVars
    /\ UNCHANGED notConn

\* the physical connection h can still open channels: it has not closed and
\* nobody has asked it to close
Usable(h) ==
    /\ h \in alive
    /\ ~(closePc = "closing" /\ closeH = h)
    /\ \A i \in Loops : ~(loop[i].pc = "cleanup" /\ loop[i].h = h)

\* what createChannel / createConfirmChannel returns once the connection has
\* answered: the channel, or null from the catch block
createChannelResultRethrows(created) == IF created THEN "channel" ELSE "raised"

createChannelResult(created) == IF created THEN "channel" ELSE "null"

\* createChannel() or createConfirmChannel() is called: null at once without
\* a connection handle, else the handle's channel creation is awaited
CreateChannelCall(kind) ==
    /\ apiReady
    /\ chReq.pc = "idle"
    /\ IF connection = NULL
       THEN /\ chRet' = [chRet EXCEPT ![kind] = [res |-> "null", atCall |-> isConnected,
                                                 atReturn |-> isConnected]]
            /\ UNCHANGED chReq
       ELSE /\ chReq' = [pc |-> "pending", kind |-> kind, h |-> connection,
                         atCall |-> isConnected]
            /\ chRet' = [chRet EXCEPT ![kind] = NoRet]
    /\ UNCHANGED <<connection, state, isShuttingDown, maxRetries, reconnectConfig, loop, nconn, alive,
                   listening, closePc, closeH, apiReady, mState, mEstablished, mLost,
                   mAttempt, lateAttempt>>
    /\ UNCHANGED subVars
    /\ UNCHANGED notConn

\* The awaited channel creation settles: it resolves only on a connection
\* that can still open channels (and the broker may refuse even then); the
\* error listeners are attached and the channel returned, or the catch block
\* returns null.
CreateChannelDone(created) ==
    /\ chReq.pc = "pending"
    /\ created => Usable(chReq.h)
    /\ chRet' = [chRet EXCEPT ![chReq.kind] =
                    [res |-> createChannelResult(created), atCall |-> chReq.atCall,
                     atReturn |-> isConnected]]
    /\ chReq' = NoReq
    /\ UNCHANGED <<connection, state, isShuttingDown, maxRetries, reconnectConfig, loop, nconn, alive,
                   listening, closePc, closeH, apiReady, mState, mEstablished, mLost,
                   mAttempt, lateAttempt>>
    /\ UNCHANGED subVars
    /\ UNCHANGED notConn

\* onReconnect(callback): the callback joins the set; the caller gets an
\* unsubscribe handle
OnReconnect(cb) ==
    /\ apiReady
    /\ Len(handles) < MaxRegs
    /\ reconnectSubscribers' = addSubscriber(reconnectSubscribers, cb)
    /\ handles' = Append(handles, cb)
    /\ regOrder' = IF cb \in Range(regOrder) THEN regOrder ELSE Append(regOrder, cb)
    /\ UNCHANGED <<connection, state, isShuttingDown, maxRetries, reconnectConfig, loop, nconn, alive,
                   listening, closePc, closeH, apiReady, mState, mEstablished, mLost,
                   mAttempt, lateAttempt, lastFanout, initialInvoked>>
    /\ UNCHANGED chanVars
    /\ UNCHANGED notConn

\* the caller calls the unsubscribe handle n: its callback leaves the set
Unsubscribe(n) ==
    /\ n \in DOMAIN handles
    /\ reconnectSubscribers' = deleteSubscriber(reconnectSubscribers, handles[n])
    /\ regOrder' = Without(regOrder, handles[n])
    /\ UNCHANGED <<connection, state, isShuttingDown, maxRetries, reconnectConfig, loop, nconn, alive,
                   listening, closePc, closeH, apiReady, mState, mEstablished, mLost,
                   mAttempt, lateAttempt, handles, lastFanout, initialInvoked>>
    /\ UNCHANGED chanVars
    /\ UNCHANGED notConn

ConnNext ==
    \/ \E i \in Loops : LoopStart(i)
    \/ \E i \in Loops : ConnectSucceeds(i)
    \/ \E i \in Loops : ConnectFails(i)
    \/ \E i \in Loops : CleanupDone(i)
    \/ \E i \in Loops : SleepDone(i)
    \/ \E h \in 1..MaxConnects : ConnClosed(h)
    \/ Close
    \/ CloseDone
    \/ \E kind \in ChanKinds : CreateChannelCall(kind)
    \/ \E created \in BOOLEAN : CreateChannelDone(created)

\* the manager left to itself: connections made, lost and retried
BackoffNext ==
    \/ \E i \in Loops : LoopStart(i)
    \/ \E i \in Loops : ConnectSucceeds(i)
    \/ \E i \in Loops : ConnectFails(i)
    \/ \E i \in Loops : CleanupDone(i)
    \/ \E i \in Loops : SleepDone(i)
    \/ \E h \in 1..MaxConnects : ConnClosed(h)

\* createConnection with the broker unreachable throughout
UnreachableNext ==
    \/ \E i \in Loops : LoopStart(i)
    \/ \E i \in Loops : ConnectFails(i)
    \/ \E i \in Loops : SleepDone(i)

\* a caller subscribes while no subscriber loop is running
FanSubscribe(cb) == ~fan.running /\ OnReconnect(cb)

\* a connection reports closure while no subscriber loop is running
FanClosed(h) == ~fan.running /\ ConnClosed(h)

\* The manager with subscribers that change the Set from inside the loop.
\* Outside the loop callers subscribe and connections close.
FanoutNext ==
    \/ \E i \in Loops : LoopStart(i)
    \/ \E i \in Loops : FanConnect(i)
    \/ FanInvokePlain
    \/ \E n \in 1..MaxRegs : FanInvokeUnsubscribes(n)
    \/ \E cb \in Callbacks : FanInvokeSubscribes(cb)
    \/ FanInvokeResubscribes
    \/ \E i \in Loops : FanEnd(i)
    \/ \E cb \in Callbacks : FanSubscribe(cb)
    \/ \E h \in 1..MaxConnects : FanClosed(h)

\* the manager with callers that subscribe to its reconnections
SubsNext ==
    \/ \E i \in Loops : LoopStart(i)
    \/ \E i \in Loops : ConnectSucceeds(i)
    \/ \E i \in Loops : ConnectFails(i)
    \/ \E i \in Loops : CleanupDone(i)
    \/ \E i \in Loops : SleepDone(i)
    \/ \E h \in 1..MaxConnects : ConnClosed(h)
    \/ \E cb \in Callbacks : OnReconnect(cb)
    \/ \E n \in 1..MaxRegs : Unsubscribe(n)

(***************************************************************************)
(* The Consumer: setup, handleReconnect, start, stop and the channel       *)
(* "close" listener.  The consumer's manager is seen through its           *)
(* interface: it is connected or not, it hands out channels while          *)
(* connected, and it calls the reconnect subscriber on each reconnection.  *)
(***************************************************************************)
\* channel handles and consumer tags the model can tell apart
MaxChans == 3
MaxTags == 3
\* messages in the consumer's queue, and deliveries the broker makes in a run
NMsgs == 2
MaxDeliveries == 3
Chans == 1..MaxChans
Tags == 1..MaxTags
Msgs == 1..NMsgs

\* the asynchronous operations of the consumer that can be in flight
Procs == {"rec", "start", "stop"}

Idle == [pc |-> "idle", ch |-> NULL]

\* a channel handle nothing refers to any more
FreeChans == {c \in Chans : c \notin cOpen /\ c # cChannel
                            /\ \A p \in Procs : cPc[p].ch # c}

FreeTags == {t \in Tags : t # consumerTag /\ \A r \in cRegs : r.tag # t}

\* createConsumer has returned: setup() done on channel 1, subscriber registered
ConsInit ==
    /\ cUp = TRUE
    /\ cOpen = {1}
    /\ cHandlers = [c \in Chans |-> IF c = 1 THEN 1 ELSE 0]
    /\ cChannel = 1
    /\ consumerTag = NULL
    /\ isActive = FALSE
    /\ wasActive = FALSE
    /\ cRegs = {}
    /\ cPc = [p \in Procs |-> Idle]
    /\ wantActive = FALSE
    /\ stopDone = FALSE
    /\ sigAfterStop = FALSE
    /\ startOnActive = FALSE
    /\ mq = [m \in Msgs |-> [st |-> "ready", redelivered |-> FALSE]]
    /\ deliveries = <<>>
    /\ cDelivered = [c \in Chans |-> 0]
    /\ messagesConsumed = 0
    /\ messagesConsumeFailed = 0
    /\ cRequeues = [m \in Msgs |-> 0]

\* isActive()
consumerIsActive == isActive

\* The channel "close" listener of setup(), run k times in a row (once per
\* listener on a closing channel): the fields after the k runs.
CloseListener(k) ==
    [isActive    |-> IF k = 0 THEN isActive ELSE FALSE,
     wasActive   |-> IF k = 0 THEN wasActive ELSE IF k = 1 THEN isActive ELSE FALSE,
     channel     |-> IF k = 0 THEN cChannel ELSE NULL,
     consumerTag |-> IF k = 0 THEN consumerTag ELSE NULL]

\* how many listeners run when every channel in cs closes (2 stands for "2 or more")
Firings(cs) ==
    LET with == {c \in cs : cHandlers[c] > 0} IN
    IF with = {} THEN 0
    ELSE IF Cardinality(with) >= 2 \/ \E c \in with : cHandlers[c] >= 2 THEN 2
    ELSE 1

\* The broker closes the channels cs: every delivery on them that is not
\* settled goes back to the queue, flagged redelivered.
Returned(ds, cs) ==
    [i \in DOMAIN ds |->
        IF ds[i].ch \in cs
        THEN [ds[i] EXCEPT !.ch = NULL,
                           !.out = IF @ = "unacked" THEN "returned" ELSE @]
        ELSE ds[i]]

Requeued(ds, cs) ==
    [m \in Msgs |->
        IF \E i \in DOMAIN ds : /\ ds[i].msg = m /\ ds[i].out = "unacked"
                                /\ ds[i].ch \in cs
        THEN [st |-> "ready", redelivered |-> TRUE] ELSE mq[m]]

\* The connection of the consumer's manager drops.  Every open channel
\* closes: its listeners run, then every operation awaited on the connection
\* rejects, which ends handleReconnect (caught, logged) and start() (thrown
\* to the caller) and sends stop() through its catch to its last three lines.
Drop ==
    /\ cUp
    /\ cUp' = FALSE
    /\ LET after == CloseListener(Firings(cOpen))
           stopping == cPc["stop"].pc = "cancel" IN
       /\ cChannel' = after.channel
       /\ isActive' = IF stopping THEN FALSE ELSE after.isActive
       /\ wasActive' = IF stopping THEN FALSE ELSE after.wasActive
       /\ consumerTag' = IF stopping THEN NULL ELSE after.consumerTag
       /\ stopDone' = (stopDone \/ stopping)
    /\ cOpen' = {}
    /\ cHandlers' = [c \in Chans |-> 0]
    /\ cRegs' = {}
    /\ cPc' = [p \in Procs |-> Idle]
    /\ deliveries' = Returned(deliveries, cOpen)
    /\ mq' = Requeued(deliveries, cOpen)
    /\ cDelivered' = [c \in Chans |-> 0]
    /\ UNCHANGED <<wantActive, sigAfterStop, startOnActive, messagesConsumed,
                   messagesConsumeFailed, cRequeues>>
    /\ UNCHANGED notCons

\* setup() up to its first await, run by p: close a stale channel, else ask
\* the manager for a channel
SetupHead(p) ==
    IF cChannel # NULL
    THEN cPc' = [cPc EXCEPT ![p] = [pc |-> "s_close", ch |-> cChannel]]
    ELSE cPc' = [cPc EXCEPT ![p] = [pc |-> "s_create", ch |-> NULL]]

\* The manager reconnects and calls the consumer's subscriber:
\* handleReconnect runs up to the first await of setup().
Reconnect ==
    /\ ~cUp
    /\ cUp' = TRUE
    /\ SetupHead("rec")
    /\ sigAfterStop' = (sigAfterStop \/ stopDone)
    /\ UNCHANGED <<cOpen, cHandlers, cChannel, consumerTag, isActive, wasActive,
                   cRegs, wantActive, stopDone, startOnActive>>
    /\ UNCHANGED msgVars
    /\ UNCHANGED notCons

\* setup(): the close of the stale channel has settled (errors ignored);
\* state.channel := null, then createChannel is awaited
SetupCloseDone(p) ==
    /\ cPc[p].pc = "s_close"
    /\ LET c == cPc[p].ch
           after == CloseListener(IF c \in cOpen THEN Firings({c}) ELSE 0) IN
       /\ cOpen' = cOpen \ {c}
       /\ cHandlers' = [cHandlers EXCEPT ![c] = 0]
       /\ cRegs' = {r \in cRegs : r.ch # c}
       /\ cChannel' = NULL
       /\ isActive' = after.isActive
       /\ wasActive' = after.wasActive
       /\ consumerTag' = after.consumerTag
       /\ deliveries' = Returned(deliveries, {c})
       /\ mq' = Requeued(deliveries, {c})
       /\ cDelivered' = [cDelivered EXCEPT ![c] = 0]
    /\ cPc' = [cPc EXCEPT ![p] = [pc |-> "s_create", ch |-> NULL]]
    /\ UNCHANGED <<cUp, wantActive, stopDone, sigAfterStop, startOnActive, messagesConsumed,
                   messagesConsumeFailed, cRequeues>>
    /\ UNCHANGED notCons

\* setup(): createChannel resolved with a channel; prefetch, assertQueue,
\* assertExchange and bindQueue are awaited on state.channel
SetupCreateDone(p) ==
    /\ cPc[p].pc = "s_create"
    /\ cUp
    /\ FreeChans # {}
    /\ LET c == Lowest(FreeChans) IN
         /\ cOpen' = cOpen \cup {c}
         /\ cChannel' = c
         /\ cPc' = [cPc EXCEPT ![p] = [pc |-> "s_topo", ch |-> c]]
    /\ UNCHANGED <<cUp, cHandlers, consumerTag, isActive, wasActive, cRegs,
                   wantActive, stopDone, sigAfterStop, startOnActive>>
    /\ UNCHANGED msgVars
    /\ UNCHANGED notCons

\* startConsuming() up to its await, run by p after setup() (or by start()
\* on an existing channel): consume is called on state.channel
StartConsumingHead(p) ==
    IF cChannel = NULL
    THEN cPc' = [cPc EXCEPT ![p] = Idle]
    ELSE cPc' = [cPc EXCEPT ![p] = [pc |-> "consume", ch |-> cChannel]]

\* start(), line 201: the consumer is already consuming
alreadyConsumingNever == FALSE

alreadyConsuming == isActive

\* what the caller of setup() does when setup() has returned:
\* handleReconnect resumes if wasActive, start() consumes unless active
AfterSetup(p) ==
    IF p = "rec"
    THEN IF wasActive
         THEN StartConsumingHead(p) /\ UNCHANGED wantActive
         ELSE cPc' = [cPc EXCEPT ![p] = Idle] /\ UNCHANGED wantActive
    ELSE IF cChannel = NULL
         THEN cPc' = [cPc EXCEPT ![p] = Idle] /\ UNCHANGED wantActive
         ELSE IF alreadyConsuming
              THEN cPc' = [cPc EXCEPT ![p] = Idle] /\ wantActive' = TRUE
              ELSE StartConsumingHead(p) /\ UNCHANGED wantActive

\* setup(): the topology calls have resolved; the "close" listener is put on
\* state.channel (a TypeError when it is null) and setup() returns
SetupTopoDone(p) ==
    /\ cPc[p].pc = "s_topo"
    /\ IF cChannel = NULL
       THEN /\ cPc' = [cPc EXCEPT ![p] = Idle]
            /\ UNCHANGED <<cHandlers, wantActive>>
       ELSE /\ cHandlers' = [cHandlers EXCEPT ![cChannel] = Min(@ + 1, 2)]
            /\ AfterSetup(p)
    /\ UNCHANGED <<cUp, cOpen, cChannel, consumerTag, isActive, wasActive, cRegs,
                   stopDone, sigAfterStop, startOnActive>>
    /\ UNCHANGED msgVars
    /\ UNCHANGED notCons

\* startConsuming(): consume resolved with a new consumer tag
ConsumeDone(p) ==
    /\ cPc[p].pc = "consume"
    /\ cPc[p].ch \in cOpen
    /\ FreeTags # {}
    /\ LET t == Lowest(FreeTags) IN
         /\ cRegs' = cRegs \cup {[ch |-> cPc[p].ch, tag |-> t]}
         /\ consumerTag' = t
    /\ isActive' = TRUE
    /\ wasActive' = TRUE
    /\ cPc' = [cPc EXCEPT ![p] = Idle]
    /\ wantActive' = (wantActive \/ p = "start")
    /\ UNCHANGED <<cUp, cOpen, cHandlers, cChannel, stopDone, sigAfterStop, startOnActive>>
    /\ UNCHANGED msgVars
    /\ UNCHANGED notCons

\* startConsuming(): consume was called on a channel that had already
\* closed and rejects, which ends handleReconnect or start()
ConsumeFails(p) ==
    /\ cPc[p].pc = "consume"
    /\ cPc[p].ch \notin cOpen
    /\ cPc' = [cPc EXCEPT ![p] = Idle]
    /\ UNCHANGED <<cUp, cOpen, cHandlers, cChannel, consumerTag, isActive, wasActive,
                   cRegs, wantActive, stopDone, sigAfterStop, startOnActive>>
    /\ UNCHANGED msgVars
    /\ UNCHANGED notCons

\* the caller calls start(): up to its first await
StartCall ==
    /\ cPc["start"].pc = "idle"
    /\ cPc["stop"].pc = "idle"
    /\ cUp
    /\ IF cChannel = NULL
       THEN SetupHead("start") /\ UNCHANGED wantActive
       ELSE IF alreadyConsuming
            THEN UNCHANGED cPc /\ wantActive' = TRUE
            ELSE StartConsumingHead("start") /\ UNCHANGED wantActive
    /\ stopDone' = FALSE
    /\ sigAfterStop' = FALSE
    /\ startOnActive' = isActive
    /\ UNCHANGED <<cUp, cOpen, cHandlers, cChannel, consumerTag, isActive, wasActive,
                   cRegs>>
    /\ UNCHANGED msgVars
    /\ UNCHANGED notCons

\* the last three lines of stop()
StopTail ==
    /\ consumerTag' = NULL
    /\ isActive' = FALSE
    /\ wasActive' = FALSE
    /\ stopDone' = TRUE

\* the caller calls stop(): up to its await of cancel, or to its end
StopCall ==
    /\ cPc["start"].pc = "idle"
    /\ cPc["stop"].pc = "idle"
    /\ wantActive' = FALSE
    /\ IF cChannel # NULL /\ consumerTag # NULL
       THEN /\ cPc' = [cPc EXCEPT !["stop"] = [pc |-> "cancel", ch |-> cChannel]]
            /\ UNCHANGED <<consumerTag, isActive, wasActive, stopDone>>
       ELSE /\ StopTail
            /\ UNCHANGED cPc
    /\ UNCHANGED <<cUp, cOpen, cHandlers, cChannel, cRegs, sigAfterStop, startOnActive>>
    /\ UNCHANGED msgVars
    /\ UNCHANGED notCons

\* stop(): cancel has settled
StopCancelDone ==
    /\ cPc["stop"].pc = "cancel"
    /\ cRegs' = {r \in cRegs : ~(r.ch = cPc["stop"].ch /\ r.tag = consumerTag)}
    /\ StopTail
    /\ cPc' = [cPc EXCEPT !["stop"] = Idle]
    /\ UNCHANGED <<cUp, cOpen, cHandlers, cChannel, wantActive, sigAfterStop, startOnActive>>
    /\ UNCHANGED msgVars
    /\ UNCHANGED notCons

(***************************************************************************)
(* handleMessage of the Consumer.  The broker hands a ready message to a   *)
(* live registration with the next delivery tag of that channel; an ack or *)
(* nack names only a delivery tag and is applied by the broker to the      *)
(* unsettled delivery carrying that tag on the channel it was sent on.     *)
(***************************************************************************)

\* handleMessage, line 162: the requeue decision for the message of delivery d
requeue(d) == ~d.redelivered

\* The broker delivers message m on a registration; handleMessage runs to
\* its first await (it returns at once when state.channel is null).
Deliver(m) ==
    /\ cUp
    /\ Len(deliveries) < MaxDeliveries
    /\ mq[m].st = "ready"
    /\ \E r \in cRegs :
         /\ deliveries' = Append(deliveries,
               [msg |-> m, ch |-> r.ch, tag |-> cDelivered[r.ch] + 1,
                redelivered |-> mq[m].redelivered,
                hs |-> IF cChannel = NULL THEN "skipped" ELSE "running",
                res |-> "none", sent |-> "none", out |-> "unacked"])
         /\ cDelivered' = [cDelivered EXCEPT ![r.ch] = @ + 1]
    /\ mq' = [mq EXCEPT ![m].st = "unacked"]
    /\ UNCHANGED <<cUp, cOpen, cHandlers, cChannel, consumerTag, isActive, wasActive,
                   cRegs, cPc, wantActive, stopDone, sigAfterStop, startOnActive,
                   messagesConsumed, messagesConsumeFailed, cRequeues>>
    /\ UNCHANGED notCons

\* what the broker does to the message of a delivery settled by call
Settle(m, call) ==
    [mq EXCEPT ![m] = IF call = "ack" THEN [@ EXCEPT !.st = "acked"]
                      ELSE IF call = "nack_requeue"
                           THEN [st |-> "ready", redelivered |-> TRUE]
                           ELSE [@ EXCEPT !.st = "dropped"]]

\* An ack or nack named a delivery tag that channel c does not hold
\* unsettled: the broker closes c with a channel error.  The consumer's
\* "close" listeners run and what was awaited on c rejects.
ChannelError(c, ds) ==
    /\ LET after == CloseListener(Firings({c}))
           stopping == cPc["stop"].pc = "cancel" /\ cPc["stop"].ch = c IN
       /\ cChannel' = after.channel
       /\ isActive' = IF stopping THEN FALSE ELSE after.isActive
       /\ wasActive' = IF stopping THEN FALSE ELSE after.wasActive
       /\ consumerTag' = IF stopping THEN NULL ELSE after.consumerTag
       /\ stopDone' = (stopDone \/ stopping)
    /\ cOpen' = cOpen \ {c}
    /\ cHandlers' = [cHandlers EXCEPT ![c] = 0]
    /\ cRegs' = {r \in cRegs : r.ch # c}
    /\ cPc' = [p \in Procs |->
                 IF cPc[p].ch = c /\ cPc[p].pc \in {"s_topo", "consume", "cancel"}
                 THEN Idle ELSE cPc[p]]
    /\ deliveries' = Returned(ds, {c})
    /\ mq' = Requeued(ds, {c})
    /\ cDelivered' = [cDelivered EXCEPT ![c] = 0]
    /\ UNCHANGED <<cUp, wantActive, sigAfterStop, startOnActive, cRequeues>>

\* handleMessage after its await: the handler of delivery i has returned
\* (ok) or thrown.  ack, and nack in the catch block, go to state.channel as
\* it is now; they throw when it is null or closed, and a throw of ack
\* enters the catch block like a handler failure.
HandlerDone(i, ok) ==
    /\ i \in DOMAIN deliveries
    /\ deliveries[i].hs = "running"
    /\ LET d == deliveries[i]
           canSend == cChannel # NULL /\ cChannel \in cOpen
           call == IF ~canSend THEN "threw"
                   ELSE IF ok THEN "ack"
                   ELSE IF requeue(d) THEN "nack_requeue" ELSE "nack_drop"
           ds == [deliveries EXCEPT ![i] = [@ EXCEPT !.hs = "done", !.sent = call,
                                      !.res = IF ok THEN "ok" ELSE "fail"]]
           hit == {j \in DOMAIN ds : /\ ds[j].out = "unacked" /\ ds[j].ch = cChannel
                                     /\ ds[j].tag = d.tag} IN
       /\ messagesConsumed' = messagesConsumed + (IF ok /\ canSend THEN 1 ELSE 0)
       /\ messagesConsumeFailed' = messagesConsumeFailed
                                      + (IF ok /\ canSend THEN 0 ELSE 1)
       /\ IF ~canSend
          THEN /\ deliveries' = ds
               /\ UNCHANGED <<cUp, cOpen, cHandlers, cChannel, consumerTag, isActive,
                              wasActive, cRegs, cPc, wantActive, stopDone,
                              sigAfterStop, startOnActive, mq, cDelivered, cRequeues>>
          ELSE IF hit # {}
          THEN LET j == CHOOSE j \in hit : TRUE IN
               /\ deliveries' = [ds EXCEPT ![j].out =
                                     IF call = "ack" THEN "acked"
                                     ELSE IF call = "nack_requeue" THEN "requeued"
                                     ELSE "dropped"]
               /\ mq' = Settle(ds[j].msg, call)
               /\ cRequeues' = [cRequeues EXCEPT ![ds[j].msg] =
                                     @ + (IF call = "nack_requeue" THEN 1 ELSE 0)]
               /\ UNCHANGED <<cUp, cOpen, cHandlers, cChannel, consumerTag, isActive,
                              wasActive, cRegs, cPc, wantActive, stopDone,
                              sigAfterStop, startOnActive, cDelivered>>
          ELSE ChannelError(cChannel, ds)
    /\ UNCHANGED notCons

ConsNext ==
    \/ Drop
    \/ Reconnect
    \/ \E p \in {"rec", "start"} : SetupCloseDone(p)
    \/ \E p \in {"rec", "start"} : SetupCreateDone(p)
    \/ \E p \in {"rec", "start"} : SetupTopoDone(p)
    \/ \E p \in {"rec", "start"} : ConsumeDone(p)
    \/ \E p \in {"rec", "start"} : ConsumeFails(p)
    \/ StartCall
    \/ StopCall
    \/ StopCancelDone

\* the consumer is started and never stopped, and messages flow
ConsMsgNext ==
    \/ Drop
    \/ Reconnect
    \/ \E p \in {"rec", "start"} : SetupCloseDone(p)
    \/ \E p \in {"rec", "start"} : SetupCreateDone(p)
    \/ \E p \in {"rec", "start"} : SetupTopoDone(p)
    \/ \E p \in {"rec", "start"} : ConsumeDone(p)
    \/ \E m \in Msgs : Deliver(m)
    \/ \E i \in 1..MaxDeliveries, ok \in BOOLEAN : HandlerDone(i, ok)

ConsQuiescent == \A p \in Procs : cPc[p].pc = "idle"

(***************************************************************************)
(* The Publisher.  createPublisher runs setup() once, before it returns;   *)
(* nothing else calls setup().  The manager is seen through its interface. *)
(***************************************************************************)
\* calls of publish() in a run
MaxPublishes == 4

\* createPublisher has returned: setup() made the confirm channel, put the
\* "close" listener on it and set isReady
PubInit ==
    /\ pUp = TRUE
    /\ pChanOpen = TRUE
    /\ pChannel = 1
    /\ pIsReady = TRUE
    /\ messagesPublished = 0
    /\ messagesPublishFailed = 0
    /\ pPending = 0
    /\ pClosePc = "idle"
    /\ pCalls = 0
    /\ pSent = 0
    /\ pHist = <<>>

\* isReady()
publisherIsReady == pIsReady /\ pChannel # NULL

\* The channel closes: the "close" listener of setup() runs, and the
\* confirmation callback of every unconfirmed publish is called with an error.
PubChannelClosed ==
    /\ pChanOpen' = FALSE
    /\ pIsReady' = FALSE
    /\ pChannel' = NULL
    /\ messagesPublishFailed' = messagesPublishFailed + pPending
    /\ pPending' = 0
    /\ pHist' = [i \in DOMAIN pHist |->
                    IF pHist[i].st = "pending"
                    THEN [pHist[i] EXCEPT !.st = "rejected", !.err = "closed"]
                    ELSE pHist[i]]

\* the connection of the publisher's manager drops
PubDrop ==
    /\ pUp
    /\ pUp' = FALSE
    /\ IF pChanOpen
       THEN PubChannelClosed
       ELSE UNCHANGED <<pChanOpen, pIsReady, pChannel, messagesPublishFailed, pPending,
                        pHist>>
    /\ pClosePc' = IF pClosePc = "closing" THEN "done" ELSE pClosePc
    /\ UNCHANGED <<messagesPublished, pCalls, pSent>>
    /\ UNCHANGED notPub

\* The manager reconnects and calls its reconnect subscribers; the
\* publisher has registered none, so nothing of the publisher runs.
PubReconnect ==
    /\ ~pUp
    /\ pUp' = TRUE
    /\ UNCHANGED <<pChanOpen, pChannel, pIsReady, messagesPublished,
                   messagesPublishFailed, pPending, pClosePc, pCalls, pSent, pHist>>
    /\ UNCHANGED notPub

\* one call of publish() in the history: whether it passed the readiness
\* check, how its promise stands, and the error of a rejection
PCall(ready, st, err) == [ready |-> ready, st |-> st, err |-> err]

publishNotReadyNever == FALSE

\* publish(), line 98: the readiness check
publishNotReady == pChannel = NULL \/ ~pIsReady

publishThrewUncounted(n) == n

\* publish(), lines 129-132: the catch block around channel.publish
publishThrew(n) == n + 1

\* the oldest call of publish() whose confirmation is outstanding
FirstPending == Lowest({i \in DOMAIN pHist : pHist[i].st = "pending"})

\* publish(routingKey, content), up to the return of its promise
Publish ==
    /\ pCalls < MaxPublishes
    /\ pCalls' = pCalls + 1
    /\ IF publishNotReady
       THEN /\ messagesPublishFailed' = messagesPublishFailed + 1
            /\ pHist' = Append(pHist, PCall(FALSE, "rejected", "not_ready"))
            /\ UNCHANGED <<pPending, pSent>>
       ELSE IF pClosePc = "closing" \/ ~pChanOpen
            THEN \* channel.publish throws on a channel that is closing or closed
                 /\ messagesPublishFailed' = publishThrew(messagesPublishFailed)
                 /\ pSent' = pSent + 1
                 /\ pHist' = Append(pHist, PCall(TRUE, "rejected", "threw"))
                 /\ UNCHANGED pPending
            ELSE /\ pPending' = pPending + 1
                 /\ pSent' = pSent + 1
                 /\ pHist' = Append(pHist, PCall(TRUE, "pending", "none"))
                 /\ UNCHANGED messagesPublishFailed
    /\ UNCHANGED <<pUp, pChanOpen, pChannel, pIsReady, messagesPublished, pClosePc>>
    /\ UNCHANGED notPub

\* the confirmation callback of one publish: the broker confirmed (ok) or
\* refused the message
PubConfirm(ok) ==
    /\ pPending > 0
    /\ pChanOpen
    /\ pPending' = pPending - 1
    /\ IF ok
       THEN messagesPublished' = messagesPublished + 1
            /\ pHist' = [pHist EXCEPT ![FirstPending].st = "resolved"]
            /\ UNCHANGED messagesPublishFailed
       ELSE messagesPublishFailed' = messagesPublishFailed + 1
            /\ pHist' = [pHist EXCEPT ![FirstPending] =
                             [@ EXCEPT !.st = "rejected", !.err = "refused"]]
            /\ UNCHANGED messagesPublished
    /\ UNCHANGED <<pUp, pChanOpen, pChannel, pIsReady, pClosePc, pCalls, pSent>>
    /\ UNCHANGED notPub

\* close(), up to its await of channel.close(), or to its end
PubClose ==
    /\ pClosePc = "idle"
    /\ IF pChannel # NULL
       THEN /\ pClosePc' = "closing"
            /\ UNCHANGED <<pChannel, pIsReady>>
       ELSE /\ pClosePc' = "done"
            /\ pChannel' = NULL
            /\ pIsReady' = FALSE
    /\ UNCHANGED <<pUp, pChanOpen, messagesPublished, messagesPublishFailed,
                   pPending, pCalls, pSent, pHist>>
    /\ UNCHANGED notPub

\* close(): channel.close() has settled; the channel is closed, its
\* listener has run, and close() clears the fields
PubCloseDone ==
    /\ pClosePc = "closing"
    /\ pChanOpen
    /\ pClosePc' = "done"
    /\ PubChannelClosed
    /\ UNCHANGED <<pUp, messagesPublished, pCalls, pSent>>
    /\ UNCHANGED notPub

PubNext ==
    \/ PubDrop
    \/ PubReconnect
    \/ Publish
    \/ \E ok \in BOOLEAN : PubConfirm(ok)
    \/ PubClose
    \/ PubCloseDone

(***************************************************************************)
(* The Bridge: start, stop and handleMessage.  Both managers are seen      *)
(* through their interface.  The bridge registers no reconnect subscriber  *)
(* and puts no listener on its channels.                                   *)
(***************************************************************************)
ERROR_LOG_LIMIT == 10
ERROR_LOG_WINDOW_MS == 5000

\* options.exchanges: the number of configured exchanges
NExch == 2

\* History of the calls of shouldLogError(): the calls made, the requests
\* and the allowed ones of the current window of the limiter, the same of
\* the window closed last with the count its summary line reported (0: no
\* line), and the times of the latest ERROR_LOG_LIMIT + 1 allowed calls.
NoLimHist ==
    [calls |-> 0, requests |-> 0, allowed |-> 0,
     closed |-> [requests |-> 0, allowed |-> 0, summary |-> 0],
     allowedAt |-> <<>>]

\* options.logEveryNMessages
DEFAULT_LOG_EVERY == 100
LogEveryChoices == {0, 1, 2, DEFAULT_LOG_EVERY}

\* A call of start() or stop(): its result and whether it has invoked its
\* observer (onStart, onStop).  The result is "pending" while the call runs;
\* start() ends with "false_unconnected" (line 202), "false_nochannel"
\* (line 214), "true" or "threw"; stop() ends with "returned" or "threw".
BCall(op, ret, observer) == [op |-> op, ret |-> ret, observer |-> observer]

\* the message m of the source broker as delivered: fields.exchange,
\* fields.routingKey and content
Exchanges == 1..NExch
Message(m) == [exchange |-> ((m - 1) % NExch) + 1, routingKey |-> 10 + m,
               content |-> 20 + m]

\* createBridge has returned; start() was not called yet
BridgeCreated ==
    /\ bLast = BCall("none", "none", FALSE)
    /\ progressLogs = 0
    /\ bSrcUp = TRUE
    /\ bTgtUp = TRUE
    /\ bSrcOpen = {}
    /\ bTgtOpen = {}
    /\ consumerChannel = NULL
    /\ producerChannel = NULL
    /\ isRunning = FALSE
    /\ consumerTags = <<>>
    /\ bRegs = {}
    /\ bPc = [pc |-> "idle", ex |-> 0]
    /\ messagesForwarded = 0
    /\ messagesFailed = 0
    /\ errorLogCount = 0
    /\ lastErrorLogReset = 0
    /\ limHist = NoLimHist
    /\ bNow = 0
    /\ bq = [m \in Msgs |-> [st |-> "ready", redelivered |-> FALSE]]
    /\ bDeliveries = <<>>
    /\ bDelivered = [c \in Chans |-> 0]
    /\ bStarted = FALSE
    /\ bRecovered = FALSE

\* createBridge has returned with the default logEveryNMessages; start()
\* was not called yet
BridgeInit ==
    /\ BridgeCreated
    /\ logEveryNMessages = DEFAULT_LOG_EVERY

BIdle == [pc |-> "idle", ex |-> 0]

shouldLogErrorOneMore(count, reset, now) ==
    LET roll == now - reset > ERROR_LOG_WINDOW_MS
        c == (IF roll THEN 0 ELSE count) + 1 IN
    [count |-> c,
     reset |-> IF roll THEN now ELSE reset,
     suppressed |-> IF roll /\ count > ERROR_LOG_LIMIT THEN count - ERROR_LOG_LIMIT ELSE 0,
     allowed |-> c <= ERROR_LOG_LIMIT + 1]

\* shouldLogError(): the fields after one call, and its result
shouldLogError(count, reset, now) ==
    LET roll == now - reset > ERROR_LOG_WINDOW_MS
        c == (IF roll THEN 0 ELSE count) + 1 IN
    [count |-> c,
     reset |-> IF roll THEN now ELSE reset,
     suppressed |-> IF roll /\ count > ERROR_LOG_LIMIT THEN count - ERROR_LOG_LIMIT ELSE 0,
     allowed |-> c <= ERROR_LOG_LIMIT]

Latest(s) == IF Len(s) > ERROR_LOG_LIMIT + 1 THEN Tail(s) ELSE s

\* the history h after a call at the time now that found the reset time
\* "reset" and gave the result a
LimNoted(h, reset, a, now) ==
    LET rolled == a.reset # reset
        one == IF a.allowed THEN 1 ELSE 0 IN
    [calls |-> h.calls + 1,
     requests |-> (IF rolled THEN 0 ELSE h.requests) + 1,
     allowed |-> (IF rolled THEN 0 ELSE h.allowed) + one,
     closed |-> IF rolled
                THEN [requests |-> h.requests, allowed |-> h.allowed,
                      summary |-> a.suppressed]
                ELSE h.closed,
     allowedAt |-> IF a.allowed THEN Latest(Append(h.allowedAt, now))
                   ELSE h.allowedAt]

\* the fields after n calls of shouldLogError() in a row
RECURSIVE LogCalls(_)
LogCalls(n) ==
    IF n = 0 THEN [count |-> errorLogCount, reset |-> lastErrorLogReset,
                   hist |-> limHist]
    ELSE LET b == LogCalls(n - 1)
             a == shouldLogError(b.count, b.reset, bNow) IN
         [count |-> a.count, reset |-> a.reset,
          hist |-> LimNoted(b.hist, b.reset, a, bNow)]

logForwardedTwice(n) == n + 2

progressLineAlways(n, every) == 1

\* logForwarded(), line 104: the progress lines written at the count n
progressLine(n, every) == IF every > 0 /\ n % every = 0 THEN 1 ELSE 0

\* logForwarded(): messagesForwarded after the call
logForwarded(n) == n + 1

bridgeRequeueAlways(d) == TRUE

\* handleMessage, line 183: the requeue decision for the message of delivery d
bridgeRequeue(d) == ~d.redelivered

\* The source broker closes the channels cs: registrations on them end and
\* every unsettled delivery on them goes back to the queue, redelivered.
BReturned(ds, cs) ==
    [i \in DOMAIN ds |->
        IF ds[i].ch \in cs
        THEN [ds[i] EXCEPT !.ch = NULL, !.cch = NULL,
                           !.out = IF @ = "unacked" THEN "returned" ELSE @]
        ELSE ds[i]]

BRequeued(ds, cs) ==
    [m \in Msgs |->
        IF \E i \in DOMAIN ds : /\ ds[i].msg = m /\ ds[i].out = "unacked"
                                /\ ds[i].ch \in cs
        THEN [st |-> "ready", redelivered |-> TRUE] ELSE bq[m]]

\* deliveries whose publish awaits its confirmation on a channel in cs
Unconfirmed(ds, cs) ==
    {i \in DOMAIN ds : ds[i].hs = "publishing" /\ ds[i].pch \in cs}

\* The target channels cs close: the confirmation callback of every
\* unconfirmed publish on them is called with a "channel closed" error, and
\* handleMessage of each runs its catch block to the early return.
BClosedTarget(ds, cs) ==
    [i \in DOMAIN ds |->
        IF i \in Unconfirmed(ds, cs)
        THEN [ds[i] EXCEPT !.hs = "done", !.conf = "closed", !.pch = NULL]
        ELSE IF ds[i].pch \in cs THEN [ds[i] EXCEPT !.pch = NULL] ELSE ds[i]]

\* the connection of the source manager drops
BSrcDrop ==
    /\ bSrcUp
    /\ bSrcUp' = FALSE
    /\ bSrcOpen' = {}
    /\ bRegs' = {}
    /\ bDeliveries' = BReturned(bDeliveries, bSrcOpen)
    /\ bq' = BRequeued(bDeliveries, bSrcOpen)
    /\ bDelivered' = [c \in Chans |-> 0]
    /\ UNCHANGED <<bTgtUp, bTgtOpen, consumerChannel, producerChannel, isRunning,
                   consumerTags, bPc, messagesForwarded, messagesFailed,
                   errorLogCount, lastErrorLogReset, limHist, bNow, bStarted, bRecovered>>
    /\ UNCHANGED <<bLast, logEveryNMessages, progressLogs>>
    /\ UNCHANGED notBr

\* The source manager reconnects and calls its reconnect subscribers; the
\* bridge has registered none, so nothing of the bridge runs.
BSrcReconnect ==
    /\ ~bSrcUp
    /\ bSrcUp' = TRUE
    /\ UNCHANGED <<bTgtUp, bSrcOpen, bTgtOpen, consumerChannel, producerChannel,
                   isRunning, consumerTags, bRegs, bPc, messagesForwarded,
                   messagesFailed, errorLogCount, lastErrorLogReset, limHist, bNow, bq,
                   bDeliveries, bDelivered, bStarted>>
    /\ bRecovered' = (bRecovered \/ bStarted)
    /\ UNCHANGED <<bLast, logEveryNMessages, progressLogs>>
    /\ UNCHANGED notBr

\* the connection of the target manager drops
BTgtDrop ==
    /\ bTgtUp
    /\ bTgtUp' = FALSE
    /\ bTgtOpen' = {}
    /\ LET n == Cardinality(Unconfirmed(bDeliveries, bTgtOpen)) IN
       /\ bDeliveries' = BClosedTarget(bDeliveries, bTgtOpen)
       /\ messagesFailed' = messagesFailed + n
       /\ errorLogCount' = LogCalls(n).count
       /\ lastErrorLogReset' = LogCalls(n).reset
       /\ limHist' = LogCalls(n).hist
    /\ UNCHANGED <<bSrcUp, bSrcOpen, consumerChannel, producerChannel, isRunning,
                   consumerTags, bRegs, bPc, messagesForwarded, bNow, bq,
                   bDelivered, bStarted, bRecovered>>
    /\ UNCHANGED <<bLast, logEveryNMessages, progressLogs>>
    /\ UNCHANGED notBr

\* the target manager reconnects: no subscriber of the bridge to call
BTgtReconnect ==
    /\ ~bTgtUp
    /\ bTgtUp' = TRUE
    /\ UNCHANGED <<bSrcUp, bSrcOpen, bTgtOpen, consumerChannel, producerChannel,
                   isRunning, consumerTags, bRegs, bPc, messagesForwarded,
                   messagesFailed, errorLogCount, lastErrorLogReset, limHist, bNow, bq,
                   bDeliveries, bDelivered, bStarted>>
    /\ bRecovered' = (bRecovered \/ bStarted)
    /\ UNCHANGED <<bLast, logEveryNMessages, progressLogs>>
    /\ UNCHANGED notBr

bLogVars == <<errorLogCount, lastErrorLogReset, limHist>>
bQueueVars == <<bq, bDeliveries, bDelivered>>
bEnvVars == <<bSrcUp, bTgtUp, bNow>>

BFreeSrc == {c \in Chans : c \notin bSrcOpen /\ c # consumerChannel}
BFreeTgt == {c \in Chans : c \notin bTgtOpen /\ c # producerChannel}
\* consumer tags the source broker can hand to the bridge in a run: two
\* start() calls over every exchange
MaxBridgeTags == 4
BridgeTags == 1..MaxBridgeTags

BFreeTags == {t \in BridgeTags : /\ \A r \in bRegs : r.tag # t
                           /\ \A k \in DOMAIN consumerTags : consumerTags[k] # t}

bothConnectedAlways == TRUE

\* start(), line 200: both managers report connected
bothConnected == bSrcUp /\ bTgtUp

\* start() from the check of both handles to its next await
AfterChannels(cc, pch) ==
    IF cc = NULL \/ pch = NULL
    THEN bPc' = BIdle /\ UNCHANGED consumerTags
    ELSE bPc' = [pc |-> "topo", ex |-> 1] /\ consumerTags' = <<>>

\* the caller calls start(): up to its first await, or to "return false"
BStartCall ==
    /\ bPc.pc = "idle"
    /\ IF ~bothConnected
       THEN /\ bLast' = BCall("start", "false_unconnected", FALSE)
            /\ UNCHANGED <<bPc, consumerTags>>
       ELSE /\ bLast' = BCall("start", "pending", FALSE)
            /\ IF consumerChannel = NULL
               THEN bPc' = [pc |-> "cc", ex |-> 0] /\ UNCHANGED consumerTags
               ELSE IF producerChannel = NULL
                    THEN bPc' = [pc |-> "pc", ex |-> 0] /\ UNCHANGED consumerTags
                    ELSE AfterChannels(consumerChannel, producerChannel)
    /\ UNCHANGED <<bSrcOpen, bTgtOpen, consumerChannel, producerChannel, isRunning,
                   bRegs, messagesForwarded, messagesFailed, bStarted, bRecovered>>
    /\ UNCHANGED <<bLogVars, bQueueVars, bEnvVars>>
    /\ UNCHANGED <<logEveryNMessages, progressLogs>>
    /\ UNCHANGED notBr

\* start(): source.createChannel() resolved, with null when the source is
\* not connected
BStartCcDone ==
    /\ bPc.pc = "cc"
    /\ LET c == IF bSrcUp /\ BFreeSrc # {} THEN Lowest(BFreeSrc) ELSE NULL IN
       /\ consumerChannel' = c
       /\ bSrcOpen' = IF c = NULL THEN bSrcOpen ELSE bSrcOpen \cup {c}
       /\ IF producerChannel = NULL
          THEN bPc' = [pc |-> "pc", ex |-> 0] /\ UNCHANGED consumerTags
          ELSE AfterChannels(c, producerChannel)
       /\ bLast' = IF producerChannel # NULL /\ c = NULL
                   THEN BCall("start", "false_nochannel", FALSE) ELSE bLast
    /\ UNCHANGED <<bTgtOpen, producerChannel, isRunning, bRegs, messagesForwarded,
                   messagesFailed, bStarted, bRecovered>>
    /\ UNCHANGED <<bLogVars, bQueueVars, bEnvVars>>
    /\ UNCHANGED <<logEveryNMessages, progressLogs>>
    /\ UNCHANGED notBr

\* start(): target.createConfirmChannel() resolved
BStartPcDone ==
    /\ bPc.pc = "pc"
    /\ LET c == IF bTgtUp /\ BFreeTgt # {} THEN Lowest(BFreeTgt) ELSE NULL IN
       /\ producerChannel' = c
       /\ bTgtOpen' = IF c = NULL THEN bTgtOpen ELSE bTgtOpen \cup {c}
       /\ AfterChannels(consumerChannel, c)
       /\ bLast' = IF consumerChannel = NULL \/ c = NULL
                   THEN BCall("start", "false_nochannel", FALSE) ELSE bLast
    /\ UNCHANGED <<bSrcOpen, consumerChannel, isRunning, bRegs, messagesForwarded,
                   messagesFailed, bStarted, bRecovered>>
    /\ UNCHANGED <<bLogVars, bQueueVars, bEnvVars>>
    /\ UNCHANGED <<logEveryNMessages, progressLogs>>
    /\ UNCHANGED notBr

\* start(): prefetch (first exchange), assertExchange on both channels,
\* assertQueue and bindQueue have resolved; consume is awaited
BStartTopoDone ==
    /\ bPc.pc = "topo"
    /\ consumerChannel \in bSrcOpen
    /\ producerChannel \in bTgtOpen
    /\ bPc' = [bPc EXCEPT !.pc = "consume"]
    /\ UNCHANGED <<bSrcOpen, bTgtOpen, consumerChannel, producerChannel, isRunning,
                   consumerTags, bRegs, messagesForwarded, messagesFailed, bStarted, bRecovered>>
    /\ UNCHANGED <<bLogVars, bQueueVars, bEnvVars>>
    /\ UNCHANGED <<bLast, logEveryNMessages, progressLogs>>
    /\ UNCHANGED notBr

\* start(): a call on a closed channel rejects and start() throws
BStartFails ==
    /\ bPc.pc \in {"topo", "consume"}
    /\ \/ consumerChannel \notin bSrcOpen
       \/ bPc.pc = "topo" /\ producerChannel \notin bTgtOpen
    /\ bPc' = BIdle
    /\ bLast' = BCall("start", "threw", FALSE)
    /\ UNCHANGED <<bSrcOpen, bTgtOpen, consumerChannel, producerChannel, isRunning,
                   consumerTags, bRegs, messagesForwarded, messagesFailed, bStarted, bRecovered>>
    /\ UNCHANGED <<bLogVars, bQueueVars, bEnvVars>>
    /\ UNCHANGED <<logEveryNMessages, progressLogs>>
    /\ UNCHANGED notBr

\* start(): consume resolved with a tag; next exchange, or the end of start()
BStartConsumeDone ==
    /\ bPc.pc = "consume"
    /\ consumerChannel \in bSrcOpen
    /\ BFreeTags # {}
    /\ LET t == Lowest(BFreeTags) IN
       /\ bRegs' = bRegs \cup {[ch |-> consumerChannel, tag |-> t, ex |-> bPc.ex]}
       /\ consumerTags' = Append(consumerTags, t)
    /\ IF bPc.ex < NExch
       THEN /\ bPc' = [pc |-> "topo", ex |-> bPc.ex + 1]
            /\ UNCHANGED <<isRunning, bStarted, bLast>>
       ELSE \* the end of start(): options.onStart() is called, and may throw
            /\ bPc' = BIdle
            /\ isRunning' = TRUE
            /\ \E threw \in BOOLEAN :
                 /\ bStarted' = ~threw
                 /\ bLast' = BCall("start", IF threw THEN "threw" ELSE "true", TRUE)
    /\ UNCHANGED bRecovered
    /\ UNCHANGED <<bSrcOpen, bTgtOpen, consumerChannel, producerChannel,
                   messagesForwarded, messagesFailed>>
    /\ UNCHANGED <<bLogVars, bQueueVars, bEnvVars>>
    /\ UNCHANGED <<logEveryNMessages, progressLogs>>
    /\ UNCHANGED notBr

stopResultSwallowed(threw) == "returned"

\* stop(), lines 281-283: options.onStop() is called outside any try block
stopResult(threw) == IF threw THEN "threw" ELSE "returned"

\* the caller calls stop(): up to its first await
BStopCall ==
    /\ bPc.pc = "idle"
    /\ bStarted' = FALSE
    /\ bRecovered' = FALSE
    /\ bLast' = BCall("stop", "pending", FALSE)
    /\ bPc' = [pc |-> IF Len(consumerTags) > 0 THEN "cancel" ELSE "close1", ex |-> 0]
    /\ UNCHANGED <<bSrcOpen, bTgtOpen, consumerChannel, producerChannel, isRunning,
                   consumerTags, bRegs, messagesForwarded, messagesFailed>>
    /\ UNCHANGED <<bLogVars, bQueueVars, bEnvVars>>
    /\ UNCHANGED <<logEveryNMessages, progressLogs>>
    /\ UNCHANGED notBr

\* stop(): the cancels have settled (errors ignored); the tag list is emptied
BStopCancelDone ==
    /\ bPc.pc = "cancel"
    /\ bRegs' = {r \in bRegs :
                   ~(r.ch = consumerChannel
                     /\ \E k \in DOMAIN consumerTags : consumerTags[k] = r.tag)}
    /\ consumerTags' = <<>>
    /\ bPc' = [pc |-> "close1", ex |-> 0]
    /\ UNCHANGED <<bSrcOpen, bTgtOpen, consumerChannel, producerChannel, isRunning,
                   messagesForwarded, messagesFailed, bStarted, bRecovered>>
    /\ UNCHANGED <<bLogVars, bQueueVars, bEnvVars>>
    /\ UNCHANGED <<bLast, logEveryNMessages, progressLogs>>
    /\ UNCHANGED notBr

\* stop(): the close of the consumer channel has settled (errors ignored)
BStopClose1Done ==
    /\ bPc.pc = "close1"
    /\ LET cs == {consumerChannel} \cap bSrcOpen IN
       /\ bSrcOpen' = bSrcOpen \ cs
       /\ bRegs' = {r \in bRegs : r.ch \notin cs}
       /\ bDeliveries' = BReturned(bDeliveries, cs)
       /\ bq' = BRequeued(bDeliveries, cs)
       /\ bDelivered' = [c \in Chans |-> IF c \in cs THEN 0 ELSE bDelivered[c]]
    /\ bPc' = [pc |-> "close2", ex |-> 0]
    /\ UNCHANGED <<bTgtOpen, consumerChannel, producerChannel, isRunning,
                   consumerTags, messagesForwarded, messagesFailed, bStarted, bRecovered>>
    /\ UNCHANGED <<bLogVars, bEnvVars>>
    /\ UNCHANGED <<bLast, logEveryNMessages, progressLogs>>
    /\ UNCHANGED notBr

\* stop(): the close of the producer channel has settled (errors ignored);
\* both handles are cleared and isRunning is reset
BStopClose2Done ==
    /\ bPc.pc = "close2"
    /\ LET cs == {producerChannel} \cap bTgtOpen
           n == Cardinality(Unconfirmed(bDeliveries, cs)) IN
       /\ bTgtOpen' = bTgtOpen \ cs
       /\ bDeliveries' = BClosedTarget(bDeliveries, cs)
       /\ messagesFailed' = messagesFailed + n
       /\ errorLogCount' = LogCalls(n).count
       /\ lastErrorLogReset' = LogCalls(n).reset
       /\ limHist' = LogCalls(n).hist
    /\ consumerChannel' = NULL
    /\ producerChannel' = NULL
    /\ isRunning' = FALSE
    /\ bPc' = BIdle
    /\ \E threw \in BOOLEAN :
         bLast' = BCall("stop", stopResult(threw), TRUE)
    /\ UNCHANGED <<bSrcOpen, consumerTags, bRegs, messagesForwarded, bq, bDelivered,
                   bStarted, bRecovered>>
    /\ UNCHANGED bEnvVars
    /\ UNCHANGED <<logEveryNMessages, progressLogs>>
    /\ UNCHANGED notBr

\* no call of channel.publish was made for the delivery
NoPublish == [exchange |-> 0, routingKey |-> 0, content |-> 0]

forwardMessageCatchAll(exchange, msg) ==
    [exchange |-> exchange, routingKey |-> 0, content |-> msg.content]

\* handleMessage, lines 159-162, and forwardMessage: the exchange, routing
\* key and body handed to channel.publish
forwardMessage(exchange, msg) ==
    [exchange |-> exchange, routingKey |-> msg.routingKey, content |-> msg.content]

\* The source broker delivers message m on a registration: handleMessage
\* captures both handles and calls publish on the producer channel, which
\* throws "Channel closed" when that channel is closed.
BDeliver(m) ==
    /\ Len(bDeliveries) < MaxDeliveries
    /\ bq[m].st = "ready"
    /\ \E r \in bRegs :
         /\ r.ex = Message(m).exchange
         /\ LET skipped == consumerChannel = NULL \/ producerChannel = NULL
                throws == ~skipped /\ producerChannel \notin bTgtOpen IN
            /\ bDeliveries' = Append(bDeliveries,
                  [msg |-> m, ch |-> r.ch, tag |-> bDelivered[r.ch] + 1,
                   ex |-> r.ex,
                   pub |-> IF skipped THEN NoPublish ELSE forwardMessage(r.ex, Message(m)),
                   redelivered |-> bq[m].redelivered,
                   cch |-> IF consumerChannel \in bSrcOpen THEN consumerChannel ELSE NULL,
                   pch |-> IF producerChannel \in bTgtOpen THEN producerChannel ELSE NULL,
                   hs |-> IF skipped THEN "skipped"
                          ELSE IF throws THEN "done" ELSE "publishing",
                   conf |-> IF throws THEN "closed" ELSE "none",
                   sent |-> "none", out |-> "unacked"])
            /\ bDelivered' = [bDelivered EXCEPT ![r.ch] = @ + 1]
            /\ messagesFailed' = messagesFailed + (IF throws THEN 1 ELSE 0)
            /\ errorLogCount' = LogCalls(IF throws THEN 1 ELSE 0).count
            /\ lastErrorLogReset' = LogCalls(IF throws THEN 1 ELSE 0).reset
            /\ limHist' = LogCalls(IF throws THEN 1 ELSE 0).hist
    /\ bq' = [bq EXCEPT ![m].st = "unacked"]
    /\ UNCHANGED <<bSrcOpen, bTgtOpen, consumerChannel, producerChannel, isRunning,
                   consumerTags, bRegs, bPc, messagesForwarded, bStarted, bRecovered>>
    /\ UNCHANGED bEnvVars
    /\ UNCHANGED <<bLast, logEveryNMessages, progressLogs>>
    /\ UNCHANGED notBr

\* handleMessage: the target broker confirmed the publish of delivery i;
\* logForwarded, then ack on the captured consumer channel, which throws
\* "Channel closed" when that channel is closed
BConfirmOk(i) ==
    /\ i \in DOMAIN bDeliveries
    /\ bDeliveries[i].hs = "publishing"
    /\ LET d == bDeliveries[i]
           open == d.cch # NULL IN
       /\ messagesForwarded' = logForwarded(messagesForwarded)
       /\ progressLogs' = progressLogs
                            + progressLine(logForwarded(messagesForwarded), logEveryNMessages)
       /\ bDeliveries' = [bDeliveries EXCEPT ![i] =
              [@ EXCEPT !.hs = "done", !.conf = "ok",
                        !.sent = IF open THEN "ack" ELSE "ack_threw",
                        !.out = IF open THEN "acked" ELSE @]]
       /\ bq' = IF open THEN [bq EXCEPT ![d.msg].st = "acked"] ELSE bq
       /\ messagesFailed' = messagesFailed + (IF open THEN 0 ELSE 1)
       /\ errorLogCount' = LogCalls(IF open THEN 0 ELSE 1).count
       /\ lastErrorLogReset' = LogCalls(IF open THEN 0 ELSE 1).reset
       /\ limHist' = LogCalls(IF open THEN 0 ELSE 1).hist
    /\ UNCHANGED <<bSrcOpen, bTgtOpen, consumerChannel, producerChannel, isRunning,
                   consumerTags, bRegs, bPc, bDelivered, bStarted, bRecovered>>
    /\ UNCHANGED bEnvVars
    /\ UNCHANGED <<bLast, logEveryNMessages>>
    /\ UNCHANGED notBr

\* handleMessage: the target broker refused the publish of delivery i (an
\* error that does not speak of a closed channel); nack on the captured
\* consumer channel, a throw of which is swallowed
BConfirmNack(i) ==
    /\ i \in DOMAIN bDeliveries
    /\ bDeliveries[i].hs = "publishing"
    /\ LET d == bDeliveries[i]
           open == d.cch # NULL
           rq == bridgeRequeue(d)
           logs == IF open /\ ~rq THEN 2 ELSE 1 IN
       /\ bDeliveries' = [bDeliveries EXCEPT ![i] =
              [@ EXCEPT !.hs = "done", !.conf = "nack",
                        !.sent = IF ~open THEN "threw"
                                 ELSE IF rq THEN "nack_requeue" ELSE "nack_drop",
                        !.out = IF ~open THEN @
                                ELSE IF rq THEN "requeued" ELSE "dropped"]]
       /\ bq' = IF ~open THEN bq
                ELSE IF rq THEN [bq EXCEPT ![d.msg] =
                                    [st |-> "ready", redelivered |-> TRUE]]
                ELSE [bq EXCEPT ![d.msg].st = "dropped"]
       /\ messagesFailed' = messagesFailed + 1
       /\ errorLogCount' = LogCalls(logs).count
       /\ lastErrorLogReset' = LogCalls(logs).reset
       /\ limHist' = LogCalls(logs).hist
    /\ UNCHANGED <<bSrcOpen, bTgtOpen, consumerChannel, producerChannel, isRunning,
                   consumerTags, bRegs, bPc, messagesForwarded, bDelivered, bStarted, bRecovered>>
    /\ UNCHANGED bEnvVars
    /\ UNCHANGED <<bLast, logEveryNMessages, progressLogs>>
    /\ UNCHANGED notBr

\* A producer of the source broker publishes the message m once more, after
\* the bridge has settled it: the queue bound to its exchange holds it again.
BSourcePublish(m) ==
    /\ bq[m].st \in {"acked", "dropped"}
    /\ bq' = [bq EXCEPT ![m] = [st |-> "ready", redelivered |-> FALSE]]
    /\ UNCHANGED <<bSrcOpen, bTgtOpen, consumerChannel, producerChannel, isRunning,
                   consumerTags, bRegs, bPc, messagesForwarded, messagesFailed,
                   bDeliveries, bDelivered, bStarted, bRecovered>>
    /\ UNCHANGED <<bLogVars, bEnvVars>>
    /\ UNCHANGED <<bLast, logEveryNMessages, progressLogs>>
    /\ UNCHANGED notBr

\* the clock advances by one tick
TickMs == 2501
MaxTicks == 4
\* calls of shouldLogError() in a run of the limiter alone
MaxLogCalls == 24

ErrTick ==
    /\ bNow < MaxTicks * TickMs
    /\ bNow' = bNow + TickMs
    /\ UNCHANGED <<bSrcUp, bTgtUp, bSrcOpen, bTgtOpen, consumerChannel, producerChannel,
                   isRunning, consumerTags, bRegs, bPc, messagesForwarded,
                   messagesFailed, bStarted, bRecovered>>
    /\ UNCHANGED <<bLogVars, bQueueVars>>
    /\ UNCHANGED <<bLast, logEveryNMessages, progressLogs>>
    /\ UNCHANGED notBr

\* a failure path of handleMessage asks shouldLogError() once
ErrorLogRequest ==
    /\ limHist.calls < MaxLogCalls
    /\ errorLogCount' = LogCalls(1).count
    /\ lastErrorLogReset' = LogCalls(1).reset
    /\ limHist' = LogCalls(1).hist
    /\ UNCHANGED <<bSrcOpen, bTgtOpen, consumerChannel, producerChannel,
                   isRunning, consumerTags, bRegs, bPc, messagesForwarded,
                   messagesFailed, bStarted, bRecovered>>
    /\ UNCHANGED <<bQueueVars, bEnvVars>>
    /\ UNCHANGED <<bLast, logEveryNMessages, progressLogs>>
    /\ UNCHANGED notBr

LimiterNext ==
    \/ ErrTick
    \/ ErrorLogRequest

BridgeNext ==
    \/ BSrcDrop
    \/ BSrcReconnect
    \/ BTgtDrop
    \/ BTgtReconnect
    \/ BStartCall
    \/ BStartCcDone
    \/ BStartPcDone
    \/ BStartTopoDone
    \/ BStartFails
    \/ BStartConsumeDone
    \/ BStopCall
    \/ BStopCancelDone
    \/ BStopClose1Done
    \/ BStopClose2Done
    \/ \E m \in Msgs : BDeliver(m)
    \/ \E i \in 1..MaxDeliveries : BConfirmOk(i)
    \/ \E i \in 1..MaxDeliveries : BConfirmNack(i)

bridgeIsRunning == isRunning

\* no start() or stop() of the bridge is in progress
BridgeQuiescent == bPc.pc = "idle"

\* the bridge is forwarding: a registration is live on its consumer
\* channel and its producer channel is open
Forwarding ==
    /\ consumerChannel \in bSrcOpen
    /\ producerChannel \in bTgtOpen
    /\ \E r \in bRegs : r.ch = consumerChannel

(***************************************************************************)
(* The MetricsCollector: a state object and the operations on it.          *)
(***************************************************************************)
\* calls of one record operation between two resets
MaxRecords == 2
\* the values "new Date()" takes
Dates == {1}
\* the arguments of setReconnectAttempt
Attempts == {0, 1}

ConnectionStates == {"disconnected", "connecting", "connected", "reconnecting"}

Counters == {"connectionsEstablished", "connectionsLost", "messagesPublished",
             "messagesPublishFailed", "messagesConsumed", "messagesConsumeFailed"}

\* createMetricsCollector: the initial state object
createMetricsCollector ==
    [connectionState |-> "disconnected",
     connectionsEstablished |-> 0,
     connectionsLost |-> 0,
     messagesPublished |-> 0,
     messagesPublishFailed |-> 0,
     messagesConsumed |-> 0,
     messagesConsumeFailed |-> 0,
     lastPublishAt |-> NULL,
     lastConsumeAt |-> NULL,
     reconnectAttempt |-> 0]

getMetrics(s) == s

recordConnect(s) ==
    [s EXCEPT !.connectionsEstablished = @ + 1,
              !.connectionState = "connected",
              !.reconnectAttempt = 0]

recordDisconnect(s) ==
    [s EXCEPT !.connectionsLost = @ + 1, !.connectionState = "disconnected"]

recordPublish(s, date) ==
    [s EXCEPT !.messagesPublished = @ + 1, !.lastPublishAt = date]

recordPublishFailedAsPublish(s) == [s EXCEPT !.messagesPublished = @ + 1]

recordPublishFailed(s) == [s EXCEPT !.messagesPublishFailed = @ + 1]

recordConsume(s, date) ==
    [s EXCEPT !.messagesConsumed = @ + 1, !.lastConsumeAt = date]

recordConsumeFailed(s) == [s EXCEPT !.messagesConsumeFailed = @ + 1]

setConnectionState(s, newState) == [s EXCEPT !.connectionState = newState]

setReconnectAttempt(s, attempt) == [s EXCEPT !.reconnectAttempt = attempt]

resetKeepsTimestamps(s) ==
    [createMetricsCollector EXCEPT !.lastPublishAt = s.lastPublishAt,
                                   !.lastConsumeAt = s.lastConsumeAt]

reset(s) ==
    [s EXCEPT !.connectionState = "disconnected",
              !.connectionsEstablished = 0,
              !.connectionsLost = 0,
              !.messagesPublished = 0,
              !.messagesPublishFailed = 0,
              !.messagesConsumed = 0,
              !.messagesConsumeFailed = 0,
              !.lastPublishAt = NULL,
              !.lastConsumeAt = NULL,
              !.reconnectAttempt = 0]

\* the counter a record operation is to count in
CounterOf ==
    [recordConnect |-> "connectionsEstablished",
     recordDisconnect |-> "connectionsLost",
     recordPublish |-> "messagesPublished",
     recordPublishFailed |-> "messagesPublishFailed",
     recordConsume |-> "messagesConsumed",
     recordConsumeFailed |-> "messagesConsumeFailed"]

RecordOps == DOMAIN CounterOf

\* the fields of the state object s that differ from their initial value
Changed(s) == {f \in DOMAIN s : s[f] # createMetricsCollector[f]}

\* History: per counter the calls of its record operation since creation
\* or the last reset(), the operation called last, and whether the latest
\* reset() found every field changed ("full"), not every field ("partial"),
\* or was never called.
NoneRecorded ==
    [counts |-> [c \in Counters |-> 0], last |-> "none", resetFrom |-> "never"]

Noted(op) ==
    IF op = "reset"
    THEN [counts |-> [c \in Counters |-> 0], last |-> op,
          resetFrom |-> IF Changed(metrics) = DOMAIN metrics
                        THEN "full" ELSE "partial"]
    ELSE IF op \in RecordOps
    THEN [recorded EXCEPT !.counts[CounterOf[op]] = @ + 1, !.last = op]
    ELSE [recorded EXCEPT !.last = op]

McInit ==
    /\ metrics = createMetricsCollector
    /\ recorded = NoneRecorded

McCall(op, after) ==
    /\ metrics' = after
    /\ recorded' = Noted(op)
    /\ UNCHANGED notMc

RecordConnect ==
    /\ metrics.connectionsEstablished < MaxRecords
    /\ McCall("recordConnect", recordConnect(metrics))

RecordDisconnect ==
    /\ metrics.connectionsLost < MaxRecords
    /\ McCall("recordDisconnect", recordDisconnect(metrics))

RecordPublish ==
    /\ metrics.messagesPublished < MaxRecords
    /\ \E date \in Dates : McCall("recordPublish", recordPublish(metrics, date))

RecordPublishFailed ==
    /\ metrics.messagesPublishFailed < MaxRecords
    /\ McCall("recordPublishFailed", recordPublishFailed(metrics))

RecordConsume ==
    /\ metrics.messagesConsumed < MaxRecords
    /\ \E date \in Dates : McCall("recordConsume", recordConsume(metrics, date))

RecordConsumeFailed ==
    /\ metrics.messagesConsumeFailed < MaxRecords
    /\ McCall("recordConsumeFailed", recordConsumeFailed(metrics))

SetConnectionState ==
    \E newState \in ConnectionStates :
        McCall("setConnectionState", setConnectionState(metrics, newState))

SetReconnectAttempt ==
    \E attempt \in Attempts :
        McCall("setReconnectAttempt", setReconnectAttempt(metrics, attempt))

Reset == McCall("reset", reset(metrics))

MetricsNext ==
    \/ RecordConnect
    \/ RecordDisconnect
    \/ RecordPublish
    \/ RecordPublishFailed
    \/ RecordConsume
    \/ RecordConsumeFailed
    \/ SetConnectionState
    \/ SetReconnectAttempt
    \/ Reset

vars == <<connVars, consVars, pubVars, brVars, mcVars, fanVars>>

Init ==
    /\ ConnInit /\ reconnectConfig = DEFAULT_RECONNECT /\ maxRetries \in {Unbounded, 2}
    /\ ConsInit /\ PubInit /\ BridgeInit /\ McInit

\* every reconnect configuration the model draws from
InitBackoff == ConnInit /\ ConsInit /\ PubInit /\ BridgeInit /\ McInit

\* the components other than the manager, with the manager's configuration fixed
InitFixed == Init /\ maxRetries = Unbounded

SpecPublisher == InitFixed /\ [][PubNext]_vars

SpecBridge == InitFixed /\ [][BridgeNext]_vars

\* the bridge created with any of the logEveryNMessages options
InitForward ==
    /\ ConnInit /\ reconnectConfig = DEFAULT_RECONNECT /\ maxRetries = Unbounded
    /\ ConsInit /\ PubInit /\ BridgeCreated /\ McInit
    /\ logEveryNMessages \in LogEveryChoices

\* the bridge is started and forwards, with both managers staying connected
ForwardNext ==
    \/ BStartCall
    \/ BStartCcDone
    \/ BStartPcDone
    \/ BStartTopoDone
    \/ BStartConsumeDone
    \/ \E m \in Msgs : BDeliver(m)
    \/ \E i \in 1..MaxDeliveries : BConfirmOk(i)
    \/ \E i \in 1..MaxDeliveries : BConfirmNack(i)
    \/ \E m \in Msgs : BSourcePublish(m)

SpecForward == InitForward /\ [][ForwardNext]_vars

SpecLimiter == InitFixed /\ [][LimiterNext]_vars

SpecMetrics == InitFixed /\ [][MetricsNext]_vars

SpecConn == Init /\ [][ConnNext]_vars

SpecSubs == InitFixed /\ [][SubsNext]_vars

SpecFanout == InitFixed /\ [][FanoutNext]_vars

SpecBackoff == InitBackoff /\ [][BackoffNext]_vars

SpecUnreachable == InitBackoff /\ [][UnreachableNext]_vars

SpecConsumer == InitFixed /\ [][ConsNext]_vars

\* the consumer after createConsumer and a first start(): consuming on channel 1
InitStarted ==
    /\ ConnInit /\ maxRetries = Unbounded /\ reconnectConfig = DEFAULT_RECONNECT
    /\ cUp = TRUE
    /\ cOpen = {1}
    /\ cHandlers = [c \in Chans |-> IF c = 1 THEN 1 ELSE 0]
    /\ cChannel = 1
    /\ consumerTag = 1
    /\ isActive = TRUE
    /\ wasActive = TRUE
    /\ cRegs = {[ch |-> 1, tag |-> 1]}
    /\ cPc = [p \in Procs |-> Idle]
    /\ wantActive = TRUE
    /\ stopDone = FALSE
    /\ sigAfterStop = FALSE
    /\ startOnActive = FALSE
    /\ mq = [m \in Msgs |-> [st |-> "ready", redelivered |-> FALSE]]
    /\ deliveries = <<>>
    /\ cDelivered = [c \in Chans |-> 0]
    /\ messagesConsumed = 0
    /\ messagesConsumeFailed = 0
    /\ cRequeues = [m \in Msgs |-> 0]
    /\ PubInit
    /\ BridgeInit
    /\ McInit

SpecConsumerMsg == InitStarted /\ [][ConsMsgNext]_vars

\* no invocation of connectWithRetry is at an await and close() is not running
ConnQuiescent == closePc = "idle" /\ \A i \in Loops : ~Running(loop[i])

TypeConn ==
    /\ connection \in 0..MaxConnects
    /\ state \in {"disconnected", "connecting", "connected", "reconnecting"}
    /\ mState \in {"disconnected", "connecting", "connected", "reconnecting"}
    /\ isShuttingDown \in BOOLEAN

(***************************************************************************)
(* Claims about the ConnectionManager.                                     *)
(***************************************************************************)

\* C1: in every state of a manager that createConnection has returned, the
\* physical connection handle is non-null if and only if getState() is "connected" (and so
\* isConnected() holds exactly when getState() is "connected").
C1_HandleIffConnected ==
    apiReady =>
        /\ (connection # NULL) <=> (getState = "connected")
        /\ isConnected <=> (getState = "connected")

\* C2: once close() has set the shutdown flag no connect attempt is started,
\* and whenever no connect loop and no close() is in progress any more the
\* state is "disconnected".
C2_ShutdownSettlesDisconnected ==
    isShuttingDown =>
        /\ ~lateAttempt
        /\ ConnQuiescent => getState = "disconnected"

(***************************************************************************)
(* Claims about the Consumer's recovery.                                   *)
(***************************************************************************)

\* C3: a consumer that was started and not stopped is consuming again (a
\* consumer tag is held and isActive() is true) whenever its connection is
\* up and no recovery is in progress, whatever drops and restorations came
\* before.
C3_ConsumerResumes ==
    (wantActive /\ cUp /\ ConsQuiescent) =>
        (consumerIsActive /\ consumerTag # NULL)

\* C4: once stop() has returned, a reconnect signal that arrives afterwards
\* never makes the consumer active again before the caller calls start().
C4_StopPreventsResume ==
    (stopDone /\ sigAfterStop) => ~consumerIsActive

(***************************************************************************)
(* Claims about the Publisher's recovery.                                  *)
(***************************************************************************)

\* C5: whenever the publisher's connection is up and the caller has not
\* closed the publisher, isReady() is true: a drop followed by a reconnect
\* brings the publisher back without the caller doing anything.  (No setup
\* of the publisher is ever in progress after createPublisher has returned.)
C5_PublisherRecovers ==
    (pUp /\ pClosePc = "idle") => publisherIsReady

(***************************************************************************)
(* Claims about the Bridge.                                                *)
(***************************************************************************)

\* C6: when a manager has reconnected after start() succeeded (and stop() was
\* not called since), then whenever both connections are up and no start()
\* or stop() is in progress the bridge is forwarding again, without the
\* caller calling start().
C6_BridgeResumes ==
    (bStarted /\ bRecovered /\ bSrcUp /\ bTgtUp /\ BridgeQuiescent) => Forwarding

\* deliveries whose publish the target broker confirmed
Confirmed == {i \in DOMAIN bDeliveries : bDeliveries[i].conf = "ok"}

\* C7: a source message is acked only after the target broker confirmed the
\* publish of that same delivery; messagesForwarded is the number of
\* confirmed publishes; a message whose publish was not confirmed is not acked.
C7_AckOnlyAfterConfirm ==
    /\ \A i \in DOMAIN bDeliveries :
          (bDeliveries[i].sent = "ack" \/ bDeliveries[i].out = "acked") => i \in Confirmed
    /\ \A m \in Msgs :
          bq[m].st = "acked" => \E i \in Confirmed : bDeliveries[i].msg = m
    /\ messagesForwarded = Cardinality(Confirmed)

\* a confirmed publish was counted and its source message acked, while
\* another delivery whose publish was not confirmed is not acked
C7_Witness ==
    /\ \E i \in Confirmed : bDeliveries[i].out = "acked"
    /\ \E i \in DOMAIN bDeliveries :
          bDeliveries[i].conf \in {"nack", "closed"} /\ bDeliveries[i].hs = "done"
    /\ messagesForwarded >= 1

\* deliveries whose forwarding failed
ForwardFailed == {i \in DOMAIN bDeliveries : bDeliveries[i].conf \in {"closed", "nack"}}

\* deliveries whose ack threw after a confirmed publish
AckThrew == {i \in DOMAIN bDeliveries : bDeliveries[i].sent = "ack_threw"}

\* C8 as stated: every forwarding failure counts in messagesFailed; after a
\* "channel closed" failure the source message is neither acked nor nacked;
\* after any other failure it is nacked, requeued when it was not
\* redelivered and dropped when it was.
C8_FailureNacksSource ==
    /\ messagesFailed = Cardinality(ForwardFailed) + Cardinality(AckThrew)
    /\ \A i \in ForwardFailed :
          LET d == bDeliveries[i] IN
          /\ d.conf = "closed" =>
                (d.sent = "none" /\ d.out \in {"unacked", "returned"})
          /\ d.conf = "nack" =>
                d.out = (IF d.redelivered THEN "dropped" ELSE "requeued")

\* C8 amended: as C8, but after a failure other than "channel closed" the
\* nack (requeue exactly when not redelivered) is issued on the consumer
\* channel captured at entry and takes effect only when that channel is still
\* open; when it has closed the nack throws, the throw is swallowed and the
\* source message is neither acked nor nacked by the bridge.
C8_FailureNacksIfSourceOpen ==
    /\ messagesFailed = Cardinality(ForwardFailed) + Cardinality(AckThrew)
    /\ \A i \in ForwardFailed :
          LET d == bDeliveries[i] IN
          /\ d.conf = "closed" =>
                (d.sent = "none" /\ d.out \in {"unacked", "returned"})
          /\ d.conf = "nack" =>
                \/ d.sent = "threw" /\ d.out = "returned"
                \/ /\ d.sent = (IF d.redelivered THEN "nack_drop" ELSE "nack_requeue")
                   /\ d.out = (IF d.redelivered THEN "dropped" ELSE "requeued")

\* one refused publish nacked a redelivered message without requeue, another
\* found the source channel closed, and a publish failed on a closed channel
C8_Witness ==
    /\ \E i \in ForwardFailed :
          LET d == bDeliveries[i] IN
          d.conf = "nack" /\ d.redelivered /\ d.sent = "nack_drop" /\ d.out = "dropped"
    /\ \E i \in ForwardFailed :
          bDeliveries[i].conf = "nack" /\ bDeliveries[i].sent = "threw"
    /\ messagesFailed >= 2

(***************************************************************************)
(* Claims about the Consumer's message handling.                           *)
(***************************************************************************)

\* deliveries of message m whose handler threw
HandlerFailures(m) ==
    Cardinality({i \in DOMAIN deliveries :
                    deliveries[i].msg = m /\ deliveries[i].res = "fail"})

\* the nack the catch block of handleMessage issues for delivery d
NackFor(d) == IF d.redelivered THEN "nack_drop" ELSE "nack_requeue"

\* C9: a nack issued for a failed handler asks for a requeue exactly when
\* the message was not marked redelivered, and the broker never requeues the
\* same message twice on nacks of the consumer.
C9_RequeuedAtMostOnce ==
    /\ \A i \in DOMAIN deliveries :
          deliveries[i].res = "fail" =>
              deliveries[i].sent \in {"threw", NackFor(deliveries[i])}
    /\ \A m \in Msgs : cRequeues[m] <= 1

\* C10: what happens to a message, also one redelivered after a drop, depends
\* only on the results of its handler: it is dropped without requeue only
\* after a second handler failure, its first failure having requeued it.
C10_DroppedOnSecondFailure ==
    \A m \in Msgs :
        mq[m].st = "dropped" => (HandlerFailures(m) >= 2 /\ cRequeues[m] = 1)

\* deliveries whose handler returned normally, and deliveries whose handler threw
HandlerOk == {i \in DOMAIN deliveries : deliveries[i].res = "ok"}

HandlerFailed == {i \in DOMAIN deliveries : deliveries[i].res = "fail"}

\* C11: every delivery whose handler succeeded is acknowledged and counted in
\* messagesConsumed, and messagesConsumeFailed counts exactly the deliveries
\* whose handler failed (the error path runs only for those), also when the
\* channel closed or was replaced while the handler was running.
C11_SuccessAckedFailureCounted ==
    /\ \A i \in HandlerOk : deliveries[i].sent = "ack"
    /\ messagesConsumed = Cardinality(HandlerOk)
    /\ messagesConsumeFailed = Cardinality(HandlerFailed)

\* C12: a start() called on a consumer that is already active never calls
\* consume: it registers no further per-message callback with the broker and
\* so never assigns consumerTag, isActive or wasActive.
C12_StartIdempotent ==
    startOnActive => cPc["start"].pc # "consume"

\* start() was called on an active consumer and has returned: the consumer
\* is still active on its one registration
C12_Witness ==
    /\ startOnActive
    /\ cPc["start"].pc = "idle"
    /\ isActive /\ wasActive /\ consumerTag # NULL
    /\ cRegs = {[ch |-> cChannel, tag |-> consumerTag]}

(***************************************************************************)
(* Claims about the ConnectionManager's channels and subscribers.          *)
(***************************************************************************)

\* C13: createChannel() and createConfirmChannel() return a channel only at
\* an instant when isConnected() is true (and only for a call made while
\* connected); a call that was made or that returns while the manager is not
\* connected returns null, and no call ever raises.
C13_ChannelOnlyWhenConnected ==
    \A k \in ChanKinds :
        /\ chRet[k].res = "channel" => (chRet[k].atReturn /\ chRet[k].atCall)
        /\ (chRet[k].res # "none" /\ ~(chRet[k].atReturn /\ chRet[k].atCall))
              => chRet[k].res = "null"
        /\ chRet[k].res # "raised"

\* one kind of channel was handed out while connected, the other kind came
\* back null from a call that found the manager not connected
C13_Witness ==
    \E k, n \in ChanKinds :
        /\ chRet[k].res = "channel" /\ chRet[k].atReturn
        /\ chRet[n].res = "null" /\ ~chRet[n].atReturn

C15_InvokedForInitialConnection ==
    \A cb \in Range(regOrder) : cb \in initialInvoked

\* C16: when subscribers throw during the fan-out, every registered
\* subscriber is still invoked for that connection; the manager is left
\* "connected" by that fan-out and the connect loop returns from it.
C16_ThrowingSubscriberIsolated ==
    lastFanout.threw # {} =>
        /\ Range(lastFanout.invoked) = Range(lastFanout.due)
        /\ lastFanout.state = "connected"
        /\ lastFanout.pc = "done"

\* the first of two subscribers threw and the second was still invoked; the
\* manager is connected and no loop is running
C16_Witness ==
    /\ Len(lastFanout.invoked) = 2
    /\ lastFanout.invoked[1] \in lastFanout.threw
    /\ lastFanout.invoked[2] \notin lastFanout.threw
    /\ state = "connected" /\ connection # NULL
    /\ \A i \in Loops : ~Running(loop[i])

(***************************************************************************)
(* Claims about the backoff and the retry cap.                             *)
(***************************************************************************)

\* C17: in every reconnect configuration, each backoff delay slept within
\* one failure run is at least the delay slept before it in that run and
\* none exceeds maxDelayMs.
C17_BackoffMonotoneCapped ==
    \A i \in Loops :
        loop[i].pc = "sleeping" =>
            /\ loop[i].delay >= loop[i].prev
            /\ loop[i].delay <= reconnectConfig.maxDelayMs

\* C18: every fresh invocation of connectWithRetry (the initial one and each
\* one started after an established connection was lost) begins with attempt
\* number 1 and the delay initialDelayMs, whatever the delay of an earlier
\* failure run had grown to.
C18_FreshLoopRestartsBackoff ==
    [][\A i \in Loops :
          ((loop[i].pc = "start" \/ ~Running(loop[i])) /\ Running(loop'[i])
              /\ loop'[i] # loop[i])
          => (loop'[i].attempt = 1
              /\ loop'[i].delay = reconnectConfig.initialDelayMs
              /\ loop'[i].prev = 0)]_vars

\* a connection was lost and the loop started for it is in its first attempt
\* at the initial delay, while the delay of an earlier failure run had grown
C18_Witness ==
    \E i, j \in Loops :
        /\ mLost >= 1
        /\ loop[i].pc = "connecting" /\ loop[i].attempt = 1
        /\ loop[i].delay = reconnectConfig.initialDelayMs
        /\ loop[j].pc = "done" /\ loop[j].delay > reconnectConfig.initialDelayMs

\* C19: with a finite retry cap M and the broker unreachable, the initial
\* connect never makes more than M attempts, sleeps only after fewer than M,
\* fails fatally exactly at attempt M (the number its error cites), and the
\* state never is "connected".
C19_FailsAfterCapAttempts ==
    maxRetries # Unbounded =>
        /\ state # "connected"
        /\ loop[1].attempt <= maxRetries
        /\ loop[1].pc = "sleeping" => loop[1].attempt < maxRetries
        /\ loop[1].pc = "failed" => loop[1].attempt = maxRetries

\* with maxRetries = 3 the initial connect has failed fatally at attempt 3
C19_Witness ==
    /\ maxRetries = 3
    /\ loop[1].pc = "failed" /\ loop[1].attempt = 3
    /\ mAttempt = 3
    /\ state = "connecting" /\ connection = NULL

\* C20: the closure of an established connection records one connection-lost
\* metric and, unless shutdown was requested, takes the manager out of
\* "connected" and starts a reconnect loop whose first connect attempt is
\* under way.
C20_ClosureStartsReconnect ==
    [][\A h \in 1..MaxConnects :
          ConnClosed(h) =>
              /\ mLost' = mLost + 1
              /\ ~isShuttingDown =>
                    /\ state' # "connected"
                    /\ \E i \in Loops : /\ loop'[i] # loop[i]
                                        /\ loop'[i].pc = "connecting"
                                        /\ loop'[i].attempt = 1]_vars

(***************************************************************************)
(* C21: a publish() made while no channel is available (state.channel is   *)
(* null or isReady is false) rejects at once with the not-ready error,     *)
(* adds exactly one to messagesPublishFailed, leaves messagesPublished as  *)
(* it was and makes no publish call on the broker channel.                 *)
(***************************************************************************)
C21_NotReadyRejects ==
    [][(Publish /\ (pChannel = NULL \/ ~pIsReady)) =>
         /\ messagesPublishFailed' = messagesPublishFailed + 1
         /\ messagesPublished' = messagesPublished
         /\ pSent' = pSent
         /\ pPending' = pPending
         /\ pHist' = Append(pHist, PCall(FALSE, "rejected", "not_ready"))]_vars

\* publish() was called twice after the channel had closed
C21_Witness ==
    /\ Cardinality({i \in DOMAIN pHist : pHist[i].err = "not_ready"}) = 2
    /\ messagesPublishFailed >= 2
    /\ pSent < pCalls

PSettled(st) == {i \in DOMAIN pHist : pHist[i].ready /\ pHist[i].st = st}

C23_StartRefusedUnconnected ==
    [][(BStartCall /\ ~(bSrcUp /\ bTgtUp)) =>
         /\ bLast' = BCall("start", "false_unconnected", FALSE)
         /\ bPc' = BIdle
         /\ UNCHANGED <<bSrcOpen, bTgtOpen, consumerChannel, producerChannel,
                        bRegs, consumerTags, isRunning, bStarted>>]_vars

\* start() was refused with the target down, on a bridge that had run
C23_Witness ==
    /\ bLast = BCall("start", "false_unconnected", FALSE)
    /\ bSrcUp /\ ~bTgtUp
    /\ isRunning
    /\ consumerTags # <<>>

(***************************************************************************)
(* C24: stop() of the bridge never raises, and it ends with both channel   *)
(* handles null, the consumer-tag list empty and isRunning false.          *)
(***************************************************************************)
C24_StopNeverRaises ==
    (bLast.op = "stop" /\ bLast.ret # "pending") =>
        /\ bLast.ret = "returned"
        /\ consumerChannel = NULL
        /\ producerChannel = NULL
        /\ consumerTags = <<>>
        /\ ~isRunning

\* the deliveries for which handleMessage called channel.publish
Published == {i \in DOMAIN bDeliveries : bDeliveries[i].hs # "skipped"}

(***************************************************************************)
(* C25: every message the bridge forwards is published on the target with  *)
(* the exchange and the routing key it had on the source and with the same *)
(* body.                                                                   *)
(***************************************************************************)
C25_ForwardedUnchanged ==
    \A i \in Published :
        LET d == bDeliveries[i] IN
        /\ d.pub.exchange = Message(d.msg).exchange
        /\ d.pub.routingKey = Message(d.msg).routingKey
        /\ d.pub.content = Message(d.msg).content

\* a message of each exchange was forwarded and confirmed
C25_Witness ==
    \A e \in Exchanges :
        \E i \in Published : /\ bDeliveries[i].conf = "ok"
                             /\ bDeliveries[i].pub.exchange = e

(***************************************************************************)
(* C26: messagesForwarded counts the messages forwarded successfully, over *)
(* all exchanges, and the progress lines written are                       *)
(* floor(messagesForwarded / logEveryNMessages) when logEveryNMessages > 0 *)
(* and none when it is 0.                                                  *)
(***************************************************************************)
C26_ProgressLines ==
    /\ messagesForwarded
         = Cardinality({i \in DOMAIN bDeliveries : bDeliveries[i].conf = "ok"})
    /\ progressLogs = IF logEveryNMessages > 0
                      THEN messagesForwarded \div logEveryNMessages
                      ELSE 0

\* three messages forwarded over two exchanges with a line every 2 messages
C26_Witness ==
    /\ logEveryNMessages = 2
    /\ messagesForwarded = 3
    /\ progressLogs = 1
    /\ \A e \in Exchanges : \E i \in DOMAIN bDeliveries :
          bDeliveries[i].conf = "ok" /\ bDeliveries[i].ex = e

(***************************************************************************)
(* C27: when limit + k requests reach the rate limiter in one of its       *)
(* windows, exactly limit of them are allowed, and the summary written     *)
(* when the window rolls over reports k suppressed (no summary line when   *)
(* k = 0).                                                                 *)
(***************************************************************************)
C27_BurstAllowedAndSummary ==
    /\ limHist.allowed = Min(limHist.requests, ERROR_LOG_LIMIT)
    /\ limHist.closed.allowed = Min(limHist.closed.requests, ERROR_LOG_LIMIT)
    /\ limHist.closed.summary
         = limHist.closed.requests - limHist.closed.allowed

\* a window with limit + 3 requests has rolled over
C27_Witness ==
    /\ limHist.closed.requests = ERROR_LOG_LIMIT + 3
    /\ limHist.closed.allowed = ERROR_LOG_LIMIT
    /\ limHist.closed.summary = 3

(***************************************************************************)
(* C30: in any time span of ERROR_LOG_WINDOW_MS the limiter allows at most *)
(* ERROR_LOG_LIMIT error lines: ERROR_LOG_LIMIT + 1 allowed calls in a row *)
(* take longer than the window.                                            *)
(***************************************************************************)
C30_RollingWindowLimit ==
    Len(limHist.allowedAt) = ERROR_LOG_LIMIT + 1 =>
        limHist.allowedAt[ERROR_LOG_LIMIT + 1] - limHist.allowedAt[1]
            > ERROR_LOG_WINDOW_MS

(***************************************************************************)
(* C28: each counter of the MetricsCollector equals the number of calls of *)
(* its record operation since creation or the last reset(); only reset()   *)
(* makes a counter smaller; a record operation leaves the five other       *)
(* counters as they were.                                                  *)
(***************************************************************************)
C28_CountersCountCalls ==
    [][/\ \A c \in Counters : metrics'[c] = recorded'.counts[c]
       /\ recorded'.last # "reset" =>
             \A c \in Counters : metrics'[c] >= metrics[c]
       /\ recorded'.last \in RecordOps =>
             \A c \in Counters \ {CounterOf[recorded'.last]} :
                 metrics'[c] = metrics[c]]_vars

\* the counts of the accumulation test, reached after an earlier reset()
C28_Witness ==
    /\ metrics.connectionsEstablished = 2
    /\ metrics.connectionsLost = 1
    /\ metrics.messagesPublished = 2
    /\ metrics.messagesPublishFailed = 1
    /\ metrics.messagesConsumed = 2
    /\ metrics.messagesConsumeFailed = 2
    /\ recorded.resetFrom = "full"
    /\ recorded.last = "recordPublishFailed"

(***************************************************************************)
(* C29: reset() puts the collector back into its initial snapshot: all     *)
(* counters and reconnectAttempt 0, both timestamps null, state            *)
(* "disconnected".                                                         *)
(***************************************************************************)
C29_ResetRestoresInitial ==
    recorded.last = "reset" => getMetrics(metrics) = createMetricsCollector

\* reset() was called with every field of the state object changed
C29_Witness ==
    /\ recorded.last = "reset"
    /\ recorded.resetFrom = "full"
    /\ metrics = createMetricsCollector

(***************************************************************************)
(* C31: no component holds a non-null handle to a channel that has         *)
(* reported closure: the handle of the publisher, the handle of the        *)
(* consumer and both handles of the bridge are null or name an open        *)
(* channel.                                                                *)
(***************************************************************************)
C31_NoHandleToClosedChannel ==
    /\ pChannel # NULL => pChanOpen
    /\ cChannel # NULL => cChannel \in cOpen
    /\ consumerChannel # NULL => consumerChannel \in bSrcOpen
    /\ producerChannel # NULL => producerChannel \in bTgtOpen

(***************************************************************************)
(* C32: when subscribers are added or removed from inside the loop over    *)
(* the subscribers, every subscriber registered when the loop ends was     *)
(* called exactly once by it, and no subscriber is called twice.           *)
(***************************************************************************)
C32_OncePerReconnectUnderChange ==
    /\ \A cb \in Callbacks : fan.invoked[cb] <= 1
    /\ fan.ended => \A cb \in fan.registered : fan.invoked[cb] = 1

(***************************************************************************)
(* C33: once the initial connect has succeeded, a reconnect loop that      *)
(* exhausts the finite retry cap ends with its failure logged and raised   *)
(* to no caller, and no createChannel / createConfirmChannel call raises.  *)
(***************************************************************************)
C33_ExhaustedReconnectOnlyLogged ==
    /\ \A i \in Loops :
          (loop[i].by = "scheduleReconnect" /\ loop[i].pc = "failed")
              => (loop[i].err = "logged" /\ ~Running(loop[i]))
    /\ (\E i \in Loops : loop[i].by = "scheduleReconnect" /\ loop[i].pc = "failed")
          => \A kind \in ChanKinds : chRet[kind].res # "raised"

\* the manager was handed out, its connection was lost and the reconnect loop
\* gave up at the cap of two attempts; a channel was asked for afterwards
C33_Witness ==
    /\ apiReady /\ maxRetries = 2 /\ mLost >= 1
    /\ \E i \in Loops : /\ loop[i].by = "scheduleReconnect"
                          /\ loop[i].pc = "failed" /\ loop[i].attempt = 2
                          /\ loop[i].err = "logged"
    /\ \E kind \in ChanKinds : chRet[kind].res = "null" /\ ~chRet[kind].atCall

(***************************************************************************)
(* C34: metrics.reconnectAttempt is the number of the current attempt      *)
(* while a connectWithRetry loop is running, and 0 whenever none is: after *)
(* a successful connect, after close(), after a loop has ended.            *)
(***************************************************************************)
C34_AttemptMetricZeroWhenIdle ==
    /\ \A i \in Loops :
          loop[i].pc \in {"connecting", "cleanup", "sleeping"}
              => mAttempt = loop[i].attempt
    /\ (apiReady /\ \A i \in Loops : ~Running(loop[i])) => mAttempt = 0

(***************************************************************************)
(* C35: at most one invocation of connectWithRetry of a manager is active  *)
(* (attempting, cleaning up or sleeping) at any time, for every            *)
(* interleaving of close events, close() and connect completions.          *)
(***************************************************************************)
C35_AtMostOneLoopActive ==
    Cardinality({i \in Loops : Running(loop[i])}) <= 1

\* a second connection was lost and close() was called: the loop started for
\* the second loss is in its backoff sleep, the loop of the first loss is over
C35_Witness ==
    /\ mLost >= 2 /\ isShuttingDown
    /\ \E i, j \in Loops :
          /\ i # j
          /\ loop[i].by = "scheduleReconnect" /\ loop[i].pc = "sleeping"
          /\ loop[j].by = "scheduleReconnect" /\ loop[j].pc = "done"

(***************************************************************************)
(* C40: connectionsLost <= connectionsEstablished <= connectionsLost + 1   *)
(* in every state of a manager, and connectionsEstablished is              *)
(* connectionsLost + 1 exactly when an established connection has not yet  *)
(* reported its closure.                                                   *)
(***************************************************************************)
C40_EstablishedLeadsLostByOne ==
    /\ mLost <= mEstablished
    /\ mEstablished <= mLost + 1
    /\ (mEstablished = mLost + 1) <=> (\E h \in alive : h \in listening)

(***************************************************************************)
(* C36: the Consumer sends the ack or nack of a delivery only on the       *)
(* channel the delivery was made on; when that channel was closed or       *)
(* replaced while the handler ran, nothing is sent on the new channel.     *)
(* (The channel of a delivery reads NULL once that channel has closed.)    *)
(***************************************************************************)
C36_SettledOnDeliveryChannel ==
    [][\A i \in 1..MaxDeliveries : \A ok \in BOOLEAN :
          (HandlerDone(i, ok) /\ deliveries'[i].sent # "threw")
              => cChannel = deliveries[i].ch]_vars

(***************************************************************************)
(* C37: the Consumer has at most one live consume registration on its      *)
(* current channel, and the tag of that registration is the stored         *)
(* consumerTag, for every interleaving of start(), stop() and the          *)
(* reconnect handler.                                                      *)
(***************************************************************************)
C37_OneRegistrationWithStoredTag ==
    LET live == {r \in cRegs : cChannel # NULL /\ r.ch = cChannel} IN
    /\ Cardinality(live) <= 1
    /\ \A r \in live : r.tag = consumerTag

(***************************************************************************)
(* C38: after any sequence of start() and stop() calls of the Bridge, also *)
(* a start() on a running bridge, the open source channel carries at most  *)
(* one consume registration per exchange, and consumerTags lists exactly   *)
(* the tags of the live registrations.                                     *)
(***************************************************************************)
C38_OneRegistrationPerExchange ==
    (bPc.pc = "idle" /\ consumerChannel # NULL /\ consumerChannel \in bSrcOpen) =>
        LET live == {r \in bRegs : r.ch = consumerChannel} IN
        /\ \A ex \in Exchanges : Cardinality({r \in live : r.ex = ex}) <= 1
        /\ Range(consumerTags) = {r.tag : r \in live}

(***************************************************************************)
(* C39: every message the Bridge has handled with both channel handles     *)
(* present has added exactly one to exactly one of messagesForwarded and   *)
(* messagesFailed: the two counters (which never decrease) add up to the   *)
(* number of such messages, also when the ack fails after a confirmed      *)
(* publish.                                                                *)
(***************************************************************************)
C39_ForwardedOrFailedOnce ==
    messagesForwarded + messagesFailed
        = Cardinality({i \in DOMAIN bDeliveries : bDeliveries[i].hs = "done"})

====
